---- MODULE Spec2Model ----
(***************************************************************************)
(* A model of the dna PostgreSQL extension (src/dna.c, src/qkmer.c): the   *)
(* 2-bit codec of Dna and Kmer values, the 4-bit codec of Qkmer patterns,  *)
(* the operators over them, the set-returning function generate_kmers and  *)
(* the SP-GiST support functions of the k-mer index.                       *)
(*                                                                         *)
(* A C string is a sequence of one-character strings.  A uint64_t is the   *)
(* sequence of its 32 two-bit digits (or 16 four-bit digits), digit i      *)
(* (counted from 0) holding bits [2i, 2i+1]: (x >> 2i) & 0x3 is digit i.   *)
(* ereport(ERROR, ...) abandons the call: a call's result carries the      *)
(* error message, "" when the call returned.                               *)
(***************************************************************************)
EXTENDS Integers, Sequences, FiniteSets, TLC

\* ------------------------------------------------------------------ bounds
\* Longest text enumerated exhaustively as the input of a one-argument call.
MaxTextLen == 3
\* Longest text enumerated exhaustively for each argument of a two-argument call.
MaxPairLen == 2
\* Longest text enumerated exhaustively for each of three values compared.
MaxTripleLen == 1
\* Longest pattern enumerated exhaustively over the 16-symbol alphabet.
MaxPatLen == 2
\* Calls followed after generate_kmers' call limit has wrapped around.
MaxWrappedCalls == 2
\* Most rows inserted into the indexed table.
MaxRows == 3
\* Longest k-mer inserted into the index or asked of it.
MaxKeyLen == 2

\* ------------------------------------------------------- program constants
\* Nucleotides held by one uint64_t at 2 bits each (i / 32 in encode_dna).
BasesPerWord == 32
\* Pattern symbols held by one uint64_t at 4 bits each (i / 16 in encode_qkmer).
SymbolsPerWord == 16
\* The longest k-mer (length > 32 is rejected).
KmerMaxLength == 32
\* The longest prefix picksplit emits (Min(common_length, 10)).
PicksplitPrefixCap == 10
\* The strategy numbers the consistent functions switch on.
BTLessStrategyNumber == 1
BTLessEqualStrategyNumber == 2
BTEqualStrategyNumber == 3
BTGreaterEqualStrategyNumber == 4
BTGreaterStrategyNumber == 5
RTPrefixStrategyNumber == 28
\* Leaf tuples a leaf chain holds before the host splits it.
LeafCapacity == 1
\* Nodes the host gives an inner tuple whose tuples all went to one node.
AllTheSameNodes == 8

\* ------------------------------------------------------------------ texts
Bases == {"A", "T", "C", "G"}
\* One character outside every alphabet of the extension.
Foreign == "x"
IupacSymbols == {"A", "C", "G", "T", "U", "W", "S", "M", "K", "R", "Y",
                 "B", "D", "H", "V", "N"}

\* All texts over the characters S of length 0..n.
TextsUpTo(S, n) == UNION {[1..m -> S] : m \in 0..n}

\* The text of length n that repeats seed.
Repeat(seed, n) == [i \in 1..n |-> seed[((i - 1) % Len(seed)) + 1]]

Seeds == {<<"A">>, <<"G">>, <<"T", "C">>, <<"A", "T", "C", "G">>,
          <<"G", "T", "A", "C", "C">>}

\* Texts around the k-mer length ceiling.
LongKmerTexts == {Repeat(s, n) : s \in Seeds,
                  n \in {KmerMaxLength - 1, KmerMaxLength, KmerMaxLength + 1}}

\* Texts around one and two 64-bit words of a Dna.
LongDnaTexts == {Repeat(s, n) : s \in Seeds,
                 n \in {BasesPerWord, BasesPerWord + 1, 2 * BasesPerWord - 1,
                        2 * BasesPerWord, 2 * BasesPerWord + 1}}

\* A minimum that keeps its first argument.
Min_left(a, b) == a

Min(a, b) == IF a < b THEN a ELSE b

\* ----------------------------------------------------------- 64-bit words
RECURSIVE BitOr(_, _)
\* a | b on naturals.
BitOr(a, b) ==
    IF a = 0 THEN b
    ELSE IF b = 0 THEN a
    ELSE (IF a % 2 = 1 \/ b % 2 = 1 THEN 1 ELSE 0) + 2 * BitOr(a \div 2, b \div 2)

RECURSIVE BitAnd(_, _)
\* a & b on naturals.
BitAnd(a, b) ==
    IF a = 0 \/ b = 0 THEN 0
    ELSE (IF a % 2 = 1 /\ b % 2 = 1 THEN 1 ELSE 0) + 2 * BitAnd(a \div 2, b \div 2)

RECURSIVE OrAll(_)
\* The OR of a set of naturals (0 for none): what x |= v leaves in a zeroed x
\* after it has run for every v.
OrAll(S) ==
    IF S = {} THEN 0
    ELSE LET v == CHOOSE v \in S : TRUE
         IN  BitOr(v, OrAll(S \ {v}))

\* The zero word of n digits (palloc0).
ZeroWord(n) == [j \in 1..n |-> 0]

\* x | y, digit by digit.
WordOr(x, y) == [j \in 1..Len(x) |-> BitOr(x[j], y[j])]

\* x & y, digit by digit.
WordAnd(x, y) == [j \in 1..Len(x) |-> BitAnd(x[j], y[j])]

\* (x >> offset) & mask, for offset = i digits and mask one digit wide.
DigitOf(x, i) == x[i + 1]

\* ------------------------------------------------------------- call results
NoError == ""
Returned(v) == [err |-> NoError, val |-> v]
Raised(msg) == [err |-> msg, val |-> <<>>]
IsError(r) == r.err # NoError

\* ------------------------------------------------------ Kmer: 2-bit codec
\* One step of encode_kmer's switch: the code ORed in for a character, or an error.
KmerCharCode(c) ==
    CASE c = "A" -> 0
      [] c = "T" -> 1
      [] c = "C" -> 2
      [] c = "G" -> 3
      [] OTHER -> -1

\* encode_kmer(sequence, length): the packed word, or an error.  The word starts
\* at zero and iteration i ORs (code << offset) into it, offset = i * 2: digit j
\* ends as the OR of what the iterations shifted onto it.
encode_kmer(sequence, length) ==
    IF length <= -1 \/ length > KmerMaxLength
    THEN Raised("K-mer length must be between 1 and 32 nucleotides")
    ELSE IF \E i \in 0..(length - 1) : KmerCharCode(sequence[i + 1]) < 0
         THEN Raised("Invalid character in K-mer")
         ELSE Returned([j \in 1..BasesPerWord |->
                  OrAll({KmerCharCode(sequence[i + 1]) :
                         i \in {i \in 0..(length - 1) : (i * 2) \div 2 = j - 1}})])

\* A decoder table that takes the codes of T and C for each other.
KmerBitsChar_swapped(bits) ==
    CASE bits = 0 -> "A"
      [] bits = 1 -> "C"
      [] bits = 2 -> "T"
      [] bits = 3 -> "G"

\* One step of decode_kmer's switch.
KmerBitsChar(bits) ==
    CASE bits = 0 -> "A"
      [] bits = 1 -> "T"
      [] bits = 2 -> "C"
      [] bits = 3 -> "G"

\* decode_kmer(bit_sequence, length): the text, or an error.
decode_kmer(bit_sequence, length) ==
    IF length <= 0 \/ length > KmerMaxLength
    THEN Raised("K-mer length must be between 1 and 32 nucleotides")
    ELSE Returned([i \in 1..length |-> KmerBitsChar(DigitOf(bit_sequence, i - 1))])

\* A validation whose length test is off by one (>= 32).
validate_kmer_sequence_offbyone(sequence) ==
    IF Len(sequence) >= KmerMaxLength
    THEN "K-mer length cannot exceed 32 nucleotides"
    ELSE IF \E i \in 1..Len(sequence) : sequence[i] \notin Bases
         THEN "Invalid character in K-mer sequence"
         ELSE NoError

\* validate_kmer_sequence(sequence): NoError, or the error it raises.  The
\* empty-string test is commented out in the source.
validate_kmer_sequence(sequence) ==
    IF Len(sequence) > KmerMaxLength
    THEN "K-mer length cannot exceed 32 nucleotides"
    ELSE IF \E i \in 1..Len(sequence) : sequence[i] \notin Bases
         THEN "Invalid character in K-mer sequence"
         ELSE NoError

\* kmer_make(sequence): a Kmer (length, bit_sequence), or an error.
kmer_make(sequence) ==
    IF validate_kmer_sequence(sequence) # NoError
    THEN Raised(validate_kmer_sequence(sequence))
    ELSE LET enc == encode_kmer(sequence, Len(sequence))
         IN  IF IsError(enc) THEN enc
             ELSE Returned([length |-> Len(sequence), bit_sequence |-> enc.val])

\* kmer_to_str(kmer).
kmer_to_str(kmer) ==
    IF kmer.length = 0 THEN Returned(<<>>)
    ELSE decode_kmer(kmer.bit_sequence, kmer.length)

\* A comparison that leaves out the length test.
kmer_eq_internal_nolength(kmer1, kmer2) ==
    IF kmer1.bit_sequence # kmer2.bit_sequence THEN FALSE
    ELSE TRUE

\* A comparison that looks at the lengths only.
kmer_eq_internal_lengthonly(kmer1, kmer2) ==
    IF kmer1.length # kmer2.length THEN FALSE
    ELSE TRUE

\* kmer_eq_internal(kmer1, kmer2).
kmer_eq_internal(kmer1, kmer2) ==
    IF kmer1.length # kmer2.length THEN FALSE
    ELSE IF kmer1.bit_sequence # kmer2.bit_sequence THEN FALSE
    ELSE TRUE

\* ------------------------------------------------------- Dna: 2-bit codec
\* Number of 64-bit chunks of a Dna of the given length: (length * 2 + 63) / 64.
BitLength(length) == (length * 2 + 63) \div 64

\* encode_dna(sequence, bit_sequence, length) into zeroed chunks: iteration i ORs
\* (code << offset) into chunk index, offset = (i * 2) % 64, index = i / 32.
encode_dna(sequence, length) ==
    IF \E i \in 0..(length - 1) : KmerCharCode(sequence[i + 1]) < 0
    THEN Raised("Invalid character in DNA sequence")
    ELSE Returned([index \in 1..BitLength(length) |->
             [j \in 1..BasesPerWord |->
                 OrAll({KmerCharCode(sequence[i + 1]) :
                        i \in {i \in 0..(length - 1) :
                                  /\ i \div 32 = index - 1
                                  /\ ((i * 2) % 64) \div 2 = j - 1}})]])

\* A decoder that takes a chunk to hold 64 nucleotides (index = i / 64).
decode_dna_widechunk(bit_sequence, length) ==
    [i \in 1..length |->
        KmerBitsChar(DigitOf(bit_sequence[((i - 1) \div 64) + 1],
                             (((i - 1) * 2) % 64) \div 2))]

\* decode_dna(bit_sequence, length).
decode_dna(bit_sequence, length) ==
    [i \in 1..length |->
        KmerBitsChar(DigitOf(bit_sequence[((i - 1) \div 32) + 1],
                             (((i - 1) * 2) % 64) \div 2))]

\* validate_dna_sequence(sequence): NoError, or the error it raises.
validate_dna_sequence(sequence) ==
    IF Len(sequence) = 0
    THEN "DNA sequence cannot be empty"
    ELSE IF \E i \in 1..Len(sequence) : sequence[i] \notin Bases
         THEN "Invalid character in DNA sequence"
         ELSE NoError

\* dna_make(sequence): a Dna (length, bit_sequence[]), or an error.
dna_make(sequence) ==
    IF validate_dna_sequence(sequence) # NoError
    THEN Raised(validate_dna_sequence(sequence))
    ELSE LET enc == encode_dna(sequence, Len(sequence))
         IN  IF IsError(enc) THEN enc
             ELSE Returned([length |-> Len(sequence), bit_sequence |-> enc.val])

\* dna_to_str(dna).
dna_to_str(dna) ==
    IF dna.length = 0 THEN <<>>
    ELSE decode_dna(dna.bit_sequence, dna.length)

\* dna_eq_internal(dna1, dna2).
dna_eq_internal(dna1, dna2) ==
    IF dna1.length # dna2.length THEN FALSE
    ELSE \A i \in 1..BitLength(dna1.length) :
            dna1.bit_sequence[i] = dna2.bit_sequence[i]

\* ---------------------------------------- Qkmer: 4-bit codec (src/qkmer.c)
\* encode_qkmer's switch: the code ORed in for a symbol, -1 for its default.
QkmerCharCode(c) ==
    CASE c = "A" -> 0   [] c = "C" -> 1   [] c = "G" -> 2   [] c = "T" -> 3
      [] c = "W" -> 4   [] c = "S" -> 5   [] c = "M" -> 6   [] c = "K" -> 7
      [] c = "R" -> 8   [] c = "Y" -> 9   [] c = "B" -> 10  [] c = "D" -> 11
      [] c = "H" -> 12  [] c = "V" -> 13  [] c = "N" -> 14  [] c = "U" -> 15
      [] OTHER -> -1

\* A decoder table that takes 0xE for U and 0xF for N.
QkmerBitsChar_swapped(bits) ==
    CASE bits = 0 -> "A"   [] bits = 1 -> "C"   [] bits = 2 -> "G"   [] bits = 3 -> "T"
      [] bits = 4 -> "W"   [] bits = 5 -> "S"   [] bits = 6 -> "M"   [] bits = 7 -> "K"
      [] bits = 8 -> "R"   [] bits = 9 -> "Y"   [] bits = 10 -> "B"  [] bits = 11 -> "D"
      [] bits = 12 -> "H"  [] bits = 13 -> "V"  [] bits = 14 -> "U"  [] bits = 15 -> "N"

\* decode_qkmer's switch.
QkmerBitsChar(bits) ==
    CASE bits = 0 -> "A"   [] bits = 1 -> "C"   [] bits = 2 -> "G"   [] bits = 3 -> "T"
      [] bits = 4 -> "W"   [] bits = 5 -> "S"   [] bits = 6 -> "M"   [] bits = 7 -> "K"
      [] bits = 8 -> "R"   [] bits = 9 -> "Y"   [] bits = 10 -> "B"  [] bits = 11 -> "D"
      [] bits = 12 -> "H"  [] bits = 13 -> "V"  [] bits = 14 -> "N"  [] bits = 15 -> "U"

\* Number of 64-bit chunks of a Qkmer: (length * 4 + 63) / 64.
QkmerBitLength(length) == (length * 4 + 63) \div 64

\* encode_qkmer(sequence, bit_sequence, length) into zeroed chunks: iteration i
\* ORs (code << offset) into chunk index, offset = (i * 4) % 64, index = i / 16.
encode_qkmer(sequence, length) ==
    IF \E i \in 0..(length - 1) : QkmerCharCode(sequence[i + 1]) < 0
    THEN Raised("Invalid character in qkmer sequence")
    ELSE Returned([index \in 1..QkmerBitLength(length) |->
             [j \in 1..SymbolsPerWord |->
                 OrAll({QkmerCharCode(sequence[i + 1]) :
                        i \in {i \in 0..(length - 1) :
                                  /\ i \div 16 = index - 1
                                  /\ ((i * 4) % 64) \div 4 = j - 1}})]])

\* decode_qkmer(bit_sequence, length).
decode_qkmer(bit_sequence, length) ==
    [i \in 1..length |->
        QkmerBitsChar(DigitOf(bit_sequence[((i - 1) \div 16) + 1],
                              (((i - 1) * 4) % 64) \div 4))]

\* validate_qkmer_sequence(sequence): NoError, or the error it raises.
validate_qkmer_sequence(sequence) ==
    IF Len(sequence) = 0
    THEN "QKmer sequence cannot be empty"
    ELSE IF \E i \in 1..Len(sequence) : sequence[i] \notin IupacSymbols
         THEN "Invalid character in QKmer sequence"
         ELSE NoError

\* qkmer_make(sequence) of src/qkmer.c: a Qkmer (length, bit_sequence[]), or an error.
qkmer_make(sequence) ==
    IF validate_qkmer_sequence(sequence) # NoError
    THEN Raised(validate_qkmer_sequence(sequence))
    ELSE LET enc == encode_qkmer(sequence, Len(sequence))
         IN  IF IsError(enc) THEN enc
             ELSE Returned([length |-> Len(sequence), bit_sequence |-> enc.val])

\* qkmer_to_str(qkmer) of src/qkmer.c.
qkmer_to_str(qkmer) ==
    IF qkmer.length = 0 THEN <<>>
    ELSE decode_qkmer(qkmer.bit_sequence, qkmer.length)

\* ------------------------------------------------------------- starts_with
\* The values ((uint64_t)1 << prefix_bits) - 1 can take.  For prefix_bits < 64 it
\* is the word whose low prefix_bits bits are set.  For prefix_bits = 64 the shift
\* count equals the width of the type and the behaviour is undefined: a build
\* whose shift instruction takes the count modulo 64 computes 1 - 1 = 0, one
\* whose shift yields 0 computes 0 - 1 = all ones.
PrefixMasks(prefix_bits) ==
    IF prefix_bits < 64
    THEN {[j \in 1..BasesPerWord |-> IF (j - 1) * 2 < prefix_bits THEN 3 ELSE 0]}
    ELSE {ZeroWord(BasesPerWord), [j \in 1..BasesPerWord |-> 3]}

\* starts_with(kmer, prefix), with mask the value the shift produced.
starts_with(kmer, prefix, mask) ==
    IF prefix.length > kmer.length
    THEN Raised("Prefix length cannot exceed kmer length")
    ELSE Returned(prefix.bit_sequence = WordAnd(kmer.bit_sequence, mask))

\* -------------------------------------------- Qkmer as text (src/dna.c), contains
\* validate_qkmer_pattern(pattern): NoError, or the error it raises.
validate_qkmer_pattern(pattern) ==
    IF Len(pattern) = 0
    THEN "qkmer pattern cannot be empty"
    ELSE IF Len(pattern) > KmerMaxLength
         THEN "Qkmer pattern length cannot exceed 32 characters"
         ELSE IF \E i \in 1..Len(pattern) : pattern[i] \notin IupacSymbols
              THEN "Invalid character in qkmer pattern"
              ELSE NoError

\* qkmer_make(sequence) of src/dna.c: a Qkmer holding a copy of the text.
qkmer_make_pattern(sequence) ==
    IF validate_qkmer_pattern(sequence) # NoError
    THEN Raised(validate_qkmer_pattern(sequence))
    ELSE Returned([sequence |-> [i \in 1..Len(sequence) |-> sequence[i]]])

\* A table in which K stands for G or C.
nucleotide_matches_keto(nucleotide, iupac) ==
    CASE iupac = "K" -> nucleotide = "G" \/ nucleotide = "C"
      [] iupac = "N" -> TRUE
      [] iupac \in {"A", "T", "C", "G", "U"} -> nucleotide = iupac
      [] iupac = "W" -> nucleotide = "A" \/ nucleotide = "T"
      [] iupac = "S" -> nucleotide = "C" \/ nucleotide = "G"
      [] iupac = "M" -> nucleotide = "A" \/ nucleotide = "C"
      [] iupac = "R" -> nucleotide = "A" \/ nucleotide = "G"
      [] iupac = "Y" -> nucleotide = "C" \/ nucleotide = "T"
      [] iupac = "B" -> nucleotide = "C" \/ nucleotide = "G" \/ nucleotide = "T"
      [] iupac = "D" -> nucleotide = "A" \/ nucleotide = "G" \/ nucleotide = "T"
      [] iupac = "H" -> nucleotide = "A" \/ nucleotide = "C" \/ nucleotide = "T"
      [] iupac = "V" -> nucleotide = "A" \/ nucleotide = "C" \/ nucleotide = "G"

\* nucleotide_matches(nucleotide, iupac), for the symbols its switch names.
nucleotide_matches(nucleotide, iupac) ==
    CASE iupac = "A" -> nucleotide = "A"
      [] iupac = "T" -> nucleotide = "T"
      [] iupac = "C" -> nucleotide = "C"
      [] iupac = "G" -> nucleotide = "G"
      [] iupac = "U" -> nucleotide = "U"
      [] iupac = "W" -> nucleotide = "A" \/ nucleotide = "T"
      [] iupac = "S" -> nucleotide = "C" \/ nucleotide = "G"
      [] iupac = "M" -> nucleotide = "A" \/ nucleotide = "C"
      [] iupac = "K" -> nucleotide = "G" \/ nucleotide = "T"
      [] iupac = "R" -> nucleotide = "A" \/ nucleotide = "G"
      [] iupac = "Y" -> nucleotide = "C" \/ nucleotide = "T"
      [] iupac = "B" -> nucleotide = "C" \/ nucleotide = "G" \/ nucleotide = "T"
      [] iupac = "D" -> nucleotide = "A" \/ nucleotide = "G" \/ nucleotide = "T"
      [] iupac = "H" -> nucleotide = "A" \/ nucleotide = "C" \/ nucleotide = "T"
      [] iupac = "V" -> nucleotide = "A" \/ nucleotide = "C" \/ nucleotide = "G"
      [] iupac = "N" -> TRUE

\* contains(qkmer, kmer): the loop returns false at the first position whose
\* decoded nucleotide does not match; nucleotide_matches raises an error at a
\* symbol outside its switch.
contains(qkmer, kmer) ==
    IF Len(qkmer.sequence) # kmer.length
    THEN Raised("Qkmer pattern and kmer lengths do not match")
    ELSE LET nucleotide(i) == KmerBitsChar(DigitOf(kmer.bit_sequence, (i * 2) \div 2))
             stops == {i \in 0..(kmer.length - 1) :
                          \/ qkmer.sequence[i + 1] \notin IupacSymbols
                          \/ ~nucleotide_matches(nucleotide(i), qkmer.sequence[i + 1])}
         IN  IF stops = {} THEN Returned(TRUE)
             ELSE LET i == CHOOSE i \in stops : \A j \in stops : i <= j
                  IN  IF qkmer.sequence[i + 1] \notin IupacSymbols
                      THEN Raised("Invalid character in pattern")
                      ELSE Returned(FALSE)

\* ---------------------------------------------------------- generate_kmers
\* funcctx->max_calls = dna->length - k + 1, computed in uint64_t: a negative
\* result here stands for that number plus 2^64.
MaxCallsOf_short(length, k) == length - k

MaxCallsOf(length, k) == length - k + 1

\* current_index < funcctx->max_calls, compared as uint64_t.
CallsRemain(current_index, max_calls) ==
    IF max_calls < 0 THEN TRUE ELSE current_index < max_calls

\* The k-mer texts one call's decoding loop can produce at current_index:
\* nucleotide i is read from chunk (current_index + i) / 32 at bit offset
\* ((current_index + i) * 2) % 64; a chunk past the end of the Dna is memory the
\* Dna does not own and may hold any bits.
WindowTexts(dna, current_index, k) ==
    LET chunk(i) == (current_index + i) \div 32
        digit(i) == (((current_index + i) * 2) % 64) \div 2
        outside == {i \in 0..(k - 1) : chunk(i) >= Len(dna.bit_sequence)}
    IN  {[n \in 1..k |->
            IF (n - 1) \in outside THEN f[n - 1]
            ELSE KmerBitsChar(DigitOf(dna.bit_sequence[chunk(n - 1) + 1], digit(n - 1)))] :
         f \in [outside -> Bases]}

\* ------------------------------------- SP-GiST support functions (src/dna.c)
\* The byte of a nucleotide character: what *(unsigned char *) reads for a label.
CharCode(c) ==
    CASE c = "A" -> 65 [] c = "C" -> 67 [] c = "G" -> 71 [] c = "T" -> 84

\* (Datum) 0 where a Kmer pointer is expected.
NullDatum == [length |-> 0, bit_sequence |-> <<>>]

\* The C string kmer_to_str gives for a Kmer datum.
KmerText(kmer) == kmer_to_str(kmer).val

\* The Kmer datum kmer_make gives for a text it accepts.
KmerDatum(text) == kmer_make(text).val

\* The largest element of a non-empty set of integers.
MaxOf(S) == CHOOSE x \in S : \A y \in S : y <= x

\* The smallest element of a non-empty set of integers.
MinOf(S) == CHOOSE x \in S : \A y \in S : x <= y

\* A common length that stops one symbol early.
CommonLength_short(a, lena, b, lenb, offset) ==
    LET S == {n \in 1..lena : /\ n <= lenb
                              /\ \A i \in 1..n : a[i] = b[offset + i]}
    IN  IF S = {} THEN 0 ELSE MaxOf(S) - 1

\* Where the loop
\*     while (n < lena && n < lenb && a[n] == b[offset + n]) n++;
\* stops, starting from n = 0.
CommonLength(a, lena, b, lenb, offset) ==
    LET S == {n \in 1..lena : /\ n <= lenb
                              /\ \A i \in 1..n : a[i] = b[offset + i]}
    IN  IF S = {} THEN 0 ELSE MaxOf(S)

RECURSIVE searchCharLoop(_, _, _, _)
\* The loop of searchChar between StopLow and StopHigh.
searchCharLoop(nodeLabels, c, StopLow, StopHigh) ==
    IF StopLow < StopHigh
    THEN LET StopMiddle == (StopLow + StopHigh) \div 2
             middle == nodeLabels[StopMiddle + 1]
         IN  IF c < middle THEN searchCharLoop(nodeLabels, c, StopLow, StopMiddle)
             ELSE IF c > middle
                  THEN searchCharLoop(nodeLabels, c, StopMiddle + 1, StopHigh)
                  ELSE [found |-> TRUE, i |-> StopMiddle]
    ELSE [found |-> FALSE, i |-> StopHigh]

\* A searchChar that, on failure, gives the end of the array as the place to
\* insert at.
searchChar_atend(nodeLabels, nNodes, c) ==
    IF searchCharLoop(nodeLabels, c, 0, nNodes).found
    THEN searchCharLoop(nodeLabels, c, 0, nNodes)
    ELSE [found |-> FALSE, i |-> nNodes]

\* searchChar(nodeLabels, nNodes, c, &i): whether c was found, and *i.
searchChar(nodeLabels, nNodes, c) == searchCharLoop(nodeLabels, c, 0, nNodes)

\* spgist_kmer_choose(in, out), out having been zeroed by the caller.  Positions
\* in texts are 0-based in the code and 1-based here; node numbers stay 0-based.
spgist_kmer_choose(in) ==
    LET input_sequence == KmerText(in.datum)
        input_length == in.datum.length
        prefix_sequence == IF in.hasPrefix THEN KmerText(in.prefixDatum) ELSE <<>>
        prefix_length == IF in.hasPrefix THEN in.prefixDatum.length ELSE 0
        common_length ==
            IF in.hasPrefix
            THEN CommonLength(prefix_sequence, prefix_length, input_sequence,
                              input_length - in.level, in.level)
            ELSE 0
        next_char ==
            IF in.hasPrefix
            THEN IF in.level + common_length < input_length
                 THEN CharCode(input_sequence[in.level + common_length + 1]) ELSE -1
            ELSE IF in.level < input_length
                 THEN CharCode(input_sequence[in.level + 1]) ELSE -1
        found == searchChar(in.nodeLabels, in.nNodes, next_char)
        level_add == common_length + (IF next_char >= 0 THEN 1 ELSE 0)
        all_common == CommonLength(prefix_sequence, prefix_length, input_sequence,
                                   input_length, 0)
    IN  IF in.hasPrefix /\ common_length # prefix_length
        THEN \* must split prefix
             [resultType |-> "spgSplitTuple",
              prefixHasPrefix |-> common_length # 0,
              prefixPrefixDatum |->
                  IF common_length = 0 THEN NullDatum
                  ELSE KmerDatum(SubSeq(prefix_sequence, 1, common_length)),
              prefixNNodes |-> 1,
              prefixNodeLabels |-> <<CharCode(prefix_sequence[common_length + 1])>>,
              childNodeN |-> 0,
              postfixHasPrefix |-> prefix_length - common_length # 1,
              postfixPrefixDatum |->
                  IF prefix_length - common_length = 1 THEN NullDatum
                  ELSE KmerDatum(SubSeq(prefix_sequence, common_length + 2,
                                        prefix_length))]
        ELSE IF found.found
        THEN [resultType |-> "spgMatchNode",
              nodeN |-> found.i,
              levelAdd |-> level_add,
              restDatum |->
                  IF input_length - in.level - level_add > 0
                  THEN KmerDatum(SubSeq(input_sequence, in.level + level_add + 1,
                                        input_length))
                  ELSE KmerDatum(<<>>)]
        ELSE IF in.allTheSame
        THEN IF in.prefixDatum = NullDatum
             THEN \* kmer_to_str reads through the null prefixDatum
                  [resultType |-> "SIGSEGV"]
             ELSE [resultType |-> "spgSplitTuple",
                   prefixHasPrefix |-> all_common > 0,
                   prefixPrefixDatum |->
                       IF all_common > 0
                       THEN KmerDatum(SubSeq(prefix_sequence, 1, all_common))
                       ELSE NullDatum,
                   prefixNNodes |-> in.nNodes,
                   prefixNodeLabels |-> in.nodeLabels,
                   childNodeN |-> 0,
                   postfixHasPrefix |-> input_length > all_common,
                   postfixPrefixDatum |->
                       IF input_length > all_common
                       THEN KmerDatum(SubSeq(input_sequence, all_common + 1,
                                             input_length))
                       ELSE NullDatum]
        ELSE [resultType |-> "spgAddNode",
              nodeLabel |-> next_char,
              nodeN |-> found.i]

\* The ascending sequence of the elements of a finite set of integers.
RECURSIVE Ascending(_)
Ascending(S) ==
    IF S = {} THEN <<>> ELSE <<MinOf(S)>> \o Ascending(S \ {MinOf(S)})

\* A position that is always the first.
PositionOf_first(x, seq) == 0

\* The position (from 0) of x in a sequence that holds it.
PositionOf(x, seq) == (CHOOSE n \in 1..Len(seq) : seq[n] = x) - 1

\* spgist_kmer_picksplit(in, out).  qsort orders the tuples by label; the output
\* depends only on which tuples share a label, not on how it orders equal ones.
spgist_kmer_picksplit(in) ==
    LET sequence(i) == KmerText(in.datums[i])
        first_sequence == sequence(1)
        longest ==
            MinOf({in.datums[1].length} \cup
                  {CommonLength(first_sequence, in.datums[1].length, sequence(i),
                                in.datums[i].length, 0) : i \in 2..in.nTuples})
        common_length == Min(longest, PicksplitPrefixCap)
        c(i) == IF common_length < in.datums[i].length
                THEN CharCode(sequence(i)[common_length + 1]) ELSE -1
        nodeLabels == Ascending({c(i) : i \in 1..in.nTuples})
    IN  [hasPrefix |-> common_length > 0,
         prefixDatum |-> IF common_length > 0
                         THEN KmerDatum(SubSeq(first_sequence, 1, common_length))
                         ELSE NullDatum,
         nNodes |-> Len(nodeLabels),
         nodeLabels |-> nodeLabels,
         mapTuplesToNodes |-> [i \in 1..in.nTuples |-> PositionOf(c(i), nodeLabels)],
         leafTupleDatums |->
             [i \in 1..in.nTuples |->
                 IF common_length < Len(sequence(i))
                 THEN KmerDatum(SubSeq(sequence(i), common_length + 1,
                                       Len(sequence(i))))
                 ELSE KmerDatum(<<>>)]]

\* The character whose byte a node label holds.
CodeChar(n) == CHOOSE c \in Bases : CharCode(c) = n

\* Byte i (from 1) of a C string: 0 at and after its terminator.
CharAt(s, i) == IF i <= Len(s) THEN CharCode(s[i]) ELSE 0

\* strncmp(a, b, n): zero, or the difference of the first bytes that differ.
Strncmp(a, b, n) ==
    LET D == {i \in 1..n : CharAt(a, i) # CharAt(b, i)}
    IN  IF D = {} THEN 0 ELSE CharAt(a, MinOf(D)) - CharAt(b, MinOf(D))

\* The comparison both consistent functions make of a string of the given
\* length with a scan key's argument: strncmp over the shorter length, then
\* -1 or 1 if that is 0 and the lengths differ.
ComparisonResult(sequence, length, queryKmer) ==
    LET r == Strncmp(sequence, KmerText(queryKmer), Min(length, queryKmer.length))
    IN  IF r = 0 /\ length # queryKmer.length
        THEN (IF length < queryKmer.length THEN -1 ELSE 1)
        ELSE r

Strategies == {BTLessStrategyNumber, BTLessEqualStrategyNumber, BTEqualStrategyNumber,
               BTGreaterEqualStrategyNumber, BTGreaterStrategyNumber,
               RTPrefixStrategyNumber}

\* The switch of spgist_kmer_inner_consistent for a strategy it names.
InnerKeyConsistent(strategy, comparisonResult, currentLength, queryLength) ==
    CASE strategy \in {BTLessStrategyNumber, BTLessEqualStrategyNumber} ->
             comparisonResult <= 0
      [] strategy = BTEqualStrategyNumber -> comparisonResult = 0
      [] strategy \in {BTGreaterEqualStrategyNumber, BTGreaterStrategyNumber} ->
             comparisonResult >= 0
      [] strategy = RTPrefixStrategyNumber ->
             comparisonResult = 0 /\ currentLength >= queryLength

\* spgist_kmer_inner_consistent(in, out): the nodes to descend into, or the
\* error raised.  The one buffer fullReconstructedSequence serves all nodes: a
\* label is written at its end for a node whose label is not negative, and
\* stays there for the nodes examined after it.
spgist_kmer_inner_consistent(in) ==
    LET reconstructedSequence ==
            IF in.reconstructedValue # NullDatum
            THEN KmerText(in.reconstructedValue) ELSE <<>>
        prefixSequence == IF in.hasPrefix THEN KmerText(in.prefixDatum) ELSE <<>>
        base == reconstructedSequence \o prefixSequence
        written(i) == {j \in 1..i : in.nodeLabels[j] >= 0}
        fullReconstructedSequence(i) ==
            IF written(i) = {} THEN base
            ELSE Append(base, CodeChar(in.nodeLabels[MaxOf(written(i))]))
        currentLength(i) == Len(base) + (IF in.nodeLabels[i] >= 0 THEN 1 ELSE 0)
        \* the first scan key that stops the loop over the keys for node i, or 0
        stopKey(i) ==
            LET S == {j \in 1..in.nkeys :
                         \/ in.scankeys[j].sk_strategy \notin Strategies
                         \/ ~InnerKeyConsistent(
                                in.scankeys[j].sk_strategy,
                                ComparisonResult(fullReconstructedSequence(i),
                                                 currentLength(i),
                                                 in.scankeys[j].sk_argument),
                                currentLength(i),
                                in.scankeys[j].sk_argument.length)}
            IN  IF S = {} THEN 0 ELSE MinOf(S)
        unrecognized(i) ==
            stopKey(i) # 0 /\ in.scankeys[stopKey(i)].sk_strategy \notin Strategies
        isConsistent(i) == stopKey(i) = 0
        made(i) == kmer_make(fullReconstructedSequence(i))
        failed == {i \in 1..in.nNodes :
                      unrecognized(i) \/ (isConsistent(i) /\ IsError(made(i)))}
        kept == Ascending({i \in 1..in.nNodes : isConsistent(i)})
    IN  IF failed # {}
        THEN IF unrecognized(MinOf(failed))
             THEN Raised("Unrecognized strategy number")
             ELSE made(MinOf(failed))
        ELSE Returned(
                 [nNodes |-> Len(kept),
                  nodeNumbers |-> [n \in 1..Len(kept) |-> kept[n] - 1],
                  levelAdds |-> [n \in 1..Len(kept) |-> currentLength(kept[n]) - in.level],
                  reconstructedValues |->
                      [n \in 1..Len(kept) |->
                          [made(kept[n]).val EXCEPT !.length = currentLength(kept[n])]]])

\* The switch of spgist_kmer_leaf_consistent for a strategy it names.
LeafKeyConsistent(strategy, fullSequence, fullLength, queryKmer) ==
    LET comparisonResult == ComparisonResult(fullSequence, fullLength, queryKmer)
    IN  CASE strategy = RTPrefixStrategyNumber ->
                 Strncmp(fullSequence, KmerText(queryKmer), queryKmer.length) = 0
          [] strategy = BTLessStrategyNumber -> comparisonResult < 0
          [] strategy = BTLessEqualStrategyNumber -> comparisonResult <= 0
          [] strategy = BTEqualStrategyNumber -> comparisonResult = 0
          [] strategy = BTGreaterEqualStrategyNumber -> comparisonResult >= 0
          [] strategy = BTGreaterStrategyNumber -> comparisonResult > 0

\* spgist_kmer_leaf_consistent(in, out): its result with out->leafValue and
\* out->recheck, or the error raised.  The first level bytes of the full
\* sequence come from the reconstructed value, the rest from the leaf datum.
spgist_kmer_leaf_consistent(in) ==
    LET fullLength == in.level + in.leafDatum.length
        fullSequence ==
            (IF in.reconstructedValue # NullDatum
             THEN SubSeq(KmerText(in.reconstructedValue), 1, in.level) ELSE <<>>)
            \o (IF in.leafDatum.length > 0 THEN KmerText(in.leafDatum) ELSE <<>>)
        fullKmer == kmer_make(fullSequence)
        S == {i \in 1..in.nkeys :
                 \/ in.scankeys[i].sk_strategy \notin Strategies
                 \/ ~LeafKeyConsistent(in.scankeys[i].sk_strategy, fullSequence,
                                       fullLength, in.scankeys[i].sk_argument)}
    IN  IF IsError(fullKmer) THEN fullKmer
        ELSE IF S # {} /\ in.scankeys[MinOf(S)].sk_strategy \notin Strategies
        THEN Raised("Unrecognized strategy number")
        ELSE Returned([result |-> S = {}, leafValue |-> fullKmer.val,
                       recheck |-> FALSE])

\* ------------------------------------------------------------------ state
VARIABLES
    pc,     \* "idle", or the function of the extension whose call has just ended
    args,   \* the arguments of that call, as the caller wrote them
    val,    \* the value(s) the call built from its arguments, or the error raised
    out,    \* what the call returned
    heap,   \* the rows of the indexed table: the k-mers inserted, in order
    index   \* the tuples of the SP-GiST index on it; tuple 1 is the root

vars == <<pc, args, val, out, heap, index>>

None == <<>>

\* A leaf chain without tuples: the root page of an index just created.
EmptyLeafChain == [kind |-> "leaf", tuples |-> <<>>]

Init ==
    /\ pc = "idle"
    /\ args = <<>>
    /\ val = None
    /\ out = None
    /\ heap = <<>>
    /\ index = <<EmptyLeafChain>>

\* The caller takes the result; the next call starts from scratch.
Return ==
    /\ pc \notin {"idle", "spgdoinsert", "spgdoinsert_part003"}
    /\ pc' = "idle"
    /\ args' = <<>>
    /\ val' = None
    /\ out' = None
    /\ UNCHANGED <<heap, index>>

\* ------------------------------------------------- inputs of the I/O calls
KmerTexts == TextsUpTo(Bases \cup {Foreign}, MaxTextLen) \cup LongKmerTexts
DnaTexts == TextsUpTo(Bases \cup {Foreign}, MaxTextLen) \cup LongDnaTexts

IsBaseText(s) == \A i \in 1..Len(s) : s[i] \in Bases

\* --------------------------------------------------------- kmer_in / kmer_out
\* kmer_in(str): kmer_make(str).
kmer_in ==
    /\ pc = "idle"
    /\ \E str \in KmerTexts :
           /\ pc' = "kmer_in"
           /\ args' = <<str>>
           /\ val' = kmer_make(str)
           /\ out' = None
    /\ UNCHANGED <<heap, index>>

\* kmer_out(kmer) of the Kmer just made: kmer_to_str(kmer).
kmer_out ==
    /\ pc = "kmer_in"
    /\ ~IsError(val)
    /\ pc' = "kmer_out"
    /\ out' = kmer_to_str(val.val)
    /\ UNCHANGED <<args, val>>
    /\ UNCHANGED <<heap, index>>

\* ----------------------------------------------------------- dna_in / dna_out
\* dna_in(str): dna_make(str).
dna_in ==
    /\ pc = "idle"
    /\ \E str \in DnaTexts :
           /\ pc' = "dna_in"
           /\ args' = <<str>>
           /\ val' = dna_make(str)
           /\ out' = None
    /\ UNCHANGED <<heap, index>>

\* dna_out(dna) of the Dna just made: dna_to_str(dna).
dna_out ==
    /\ pc = "dna_in"
    /\ ~IsError(val)
    /\ pc' = "dna_out"
    /\ out' = Returned(dna_to_str(val.val))
    /\ UNCHANGED <<args, val>>
    /\ UNCHANGED <<heap, index>>

NextCodec == kmer_in \/ kmer_out \/ dna_in \/ dna_out \/ Return

SpecCodec == Init /\ [][NextCodec]_vars

\* C2: for every text s over {A,T,C,G} with 1 <= |s| <= 32, kmer_in accepts s
\* and kmer_out of the Kmer it made returns exactly s.
C2_KmerRoundTrip ==
    LET valid == IsBaseText(args[1]) /\ Len(args[1]) >= 1
                 /\ Len(args[1]) <= KmerMaxLength
    IN  /\ (pc = "kmer_in" /\ valid) => ~IsError(val)
        /\ (pc = "kmer_out" /\ valid) => out = Returned(args[1])

\* A 32-symbol text of mixed symbols has made the round trip.
C2_Witness ==
    /\ pc = "kmer_out"
    /\ args[1] = Repeat(<<"G", "T", "A", "C", "C">>, KmerMaxLength)
    /\ out = Returned(args[1])

\* C3: for every non-empty text s over {A,T,C,G}, of whatever length (within one
\* 64-bit chunk, filling it, or spanning several), dna_in accepts s and dna_out
\* of the Dna it made returns exactly s.
C3_DnaRoundTrip ==
    LET valid == IsBaseText(args[1]) /\ Len(args[1]) >= 1
    IN  /\ (pc = "dna_in" /\ valid) => ~IsError(val)
        /\ (pc = "dna_out" /\ valid) => out = Returned(args[1])

\* A 65-symbol text, stored in three chunks, has made the round trip.
C3_Witness ==
    /\ pc = "dna_out"
    /\ args[1] = Repeat(<<"G", "T", "A", "C", "C">>, 2 * BasesPerWord + 1)
    /\ Len(val.val.bit_sequence) = 3
    /\ out = Returned(args[1])

\* C9: kmer_in of a 33-symbol text raises the length error and makes no Kmer;
\* kmer_in of any 32-symbol text over {A,T,C,G} makes a Kmer of length 32.
C9_LengthCeiling ==
    /\ (pc = "kmer_in" /\ Len(args[1]) = KmerMaxLength + 1)
          => val = Raised("K-mer length cannot exceed 32 nucleotides")
    /\ (pc = "kmer_in" /\ Len(args[1]) = KmerMaxLength /\ IsBaseText(args[1]))
          => (~IsError(val) /\ val.val.length = KmerMaxLength)

\* A 33-symbol text has been refused.
C9_Witness ==
    /\ pc = "kmer_in"
    /\ Len(args[1]) = KmerMaxLength + 1
    /\ IsError(val)

\* C10: the empty text is refused by dna_in and by kmer_in, and neither returns
\* a value of length zero.
C10_EmptyRejected ==
    /\ (pc \in {"dna_in", "kmer_in"} /\ args[1] = <<>>) => IsError(val)
    /\ (pc \in {"dna_in", "kmer_in"} /\ ~IsError(val)) => val.val.length > 0

\* ------------------------------------------------ qkmer_in / qkmer_out (4-bit)
\* The pattern of the extension's test, SELECT qkmer('ATCGUWSMKRYBDHVN').
TestPattern == <<"A", "T", "C", "G", "U", "W", "S", "M", "K", "R", "Y", "B",
                 "D", "H", "V", "N">>

\* Patterns that fill one chunk, spill into the second and fill both.
LongPatterns == {Repeat(TestPattern, n) :
                 n \in {SymbolsPerWord, SymbolsPerWord + 1, 2 * SymbolsPerWord}}
                \cup {Repeat(<<"N", "U", "V">>, 2 * SymbolsPerWord)}

PatternTexts == TextsUpTo(IupacSymbols \cup {Foreign}, MaxPatLen) \cup LongPatterns

IsPatternText(s) == \A i \in 1..Len(s) : s[i] \in IupacSymbols

\* qkmer_in(str) of src/qkmer.c: qkmer_make(str).
qkmer_in ==
    /\ pc = "idle"
    /\ \E str \in PatternTexts :
           /\ pc' = "qkmer_in"
           /\ args' = <<str>>
           /\ val' = qkmer_make(str)
           /\ out' = None
    /\ UNCHANGED <<heap, index>>

\* qkmer_out(qkmer) of the Qkmer just made: qkmer_to_str(qkmer).
qkmer_out ==
    /\ pc = "qkmer_in"
    /\ ~IsError(val)
    /\ pc' = "qkmer_out"
    /\ out' = Returned(qkmer_to_str(val.val))
    /\ UNCHANGED <<args, val>>
    /\ UNCHANGED <<heap, index>>

NextQkmer == qkmer_in \/ qkmer_out \/ Return

SpecQkmer == Init /\ [][NextQkmer]_vars

\* C4: for every non-empty pattern p of at most 32 symbols of the 16-symbol
\* alphabet, qkmer_in accepts p and decode_qkmer of the chunks encode_qkmer wrote
\* for p, with p's length, is exactly p.
C4_QkmerRoundTrip ==
    LET valid == IsPatternText(args[1]) /\ Len(args[1]) >= 1
                 /\ Len(args[1]) <= KmerMaxLength
    IN  /\ (pc = "qkmer_in" /\ valid) =>
              (/\ ~IsError(val)
               /\ decode_qkmer(encode_qkmer(args[1], Len(args[1])).val, Len(args[1]))
                     = args[1])
        /\ (pc = "qkmer_out" /\ valid) => out = Returned(args[1])

\* The pattern of the test, all 16 symbols, has made the round trip.
C4_Witness ==
    /\ pc = "qkmer_out"
    /\ args[1] = TestPattern
    /\ out = Returned(TestPattern)

\* ------------------------------------------------------------- equals, kmer_eq
\* Texts that differ only in their last symbol, or only in length, around the
\* chunk boundaries.
EdgeTexts(n) == {Repeat(<<"A">>, n - 1), Repeat(<<"A">>, n),
                 Append(Repeat(<<"A">>, n - 1), "T"),
                 Append(Repeat(<<"A">>, n - 1), "G")}

EqKmerTexts == TextsUpTo(Bases, MaxPairLen) \cup EdgeTexts(KmerMaxLength)
EqDnaTexts == (TextsUpTo(Bases, MaxPairLen) \ {<<>>})
              \cup EdgeTexts(BasesPerWord + 1) \cup EdgeTexts(2 * BasesPerWord + 1)

\* kmer_make and dna_make of the texts above.
EqKmers == [s \in EqKmerTexts |-> kmer_make(s).val]
EqDnas == [s \in EqDnaTexts |-> dna_make(s).val]

\* kmer_eq(kmer1, kmer2) of two Kmers made by kmer_make.
kmer_eq ==
    /\ pc = "idle"
    /\ \E s \in EqKmerTexts, u \in EqKmerTexts :
           /\ pc' = "kmer_eq"
           /\ args' = <<s, u>>
           /\ val' = <<EqKmers[s], EqKmers[u]>>
           /\ out' = kmer_eq_internal(val'[1], val'[2])
    /\ UNCHANGED <<heap, index>>

\* equals(dna1, dna2) of two Dnas made by dna_make.
equals ==
    /\ pc = "idle"
    /\ \E s \in EqDnaTexts, u \in EqDnaTexts :
           /\ pc' = "equals"
           /\ args' = <<s, u>>
           /\ val' = <<EqDnas[s], EqDnas[u]>>
           /\ out' = dna_eq_internal(val'[1], val'[2])
    /\ UNCHANGED <<heap, index>>

\* Three Kmers compared pairwise by kmer_eq, in both orders and with themselves.
kmer_eq_all ==
    /\ pc = "idle"
    /\ \E s \in TextsUpTo(Bases, MaxTripleLen) \cup EdgeTexts(KmerMaxLength) :
       \E u \in TextsUpTo(Bases, MaxTripleLen) \cup EdgeTexts(KmerMaxLength) :
       \E w \in TextsUpTo(Bases, MaxTripleLen) \cup EdgeTexts(KmerMaxLength) :
           /\ pc' = "kmer_eq_all"
           /\ args' = <<s, u, w>>
           /\ val' = <<EqKmers[s], EqKmers[u], EqKmers[w]>>
           /\ out' = [i \in 1..3 |-> [j \in 1..3 |->
                         kmer_eq_internal(val'[i], val'[j])]]
    /\ UNCHANGED <<heap, index>>

\* Three Dnas compared pairwise by equals, in both orders and with themselves.
equals_all ==
    /\ pc = "idle"
    /\ \E s \in (TextsUpTo(Bases, MaxTripleLen) \ {<<>>}) \cup EdgeTexts(BasesPerWord + 1) :
       \E u \in (TextsUpTo(Bases, MaxTripleLen) \ {<<>>}) \cup EdgeTexts(BasesPerWord + 1) :
       \E w \in (TextsUpTo(Bases, MaxTripleLen) \ {<<>>}) \cup EdgeTexts(BasesPerWord + 1) :
           /\ pc' = "equals_all"
           /\ args' = <<s, u, w>>
           /\ val' = <<EqDnas[s], EqDnas[u], EqDnas[w]>>
           /\ out' = [i \in 1..3 |-> [j \in 1..3 |->
                         dna_eq_internal(val'[i], val'[j])]]
    /\ UNCHANGED <<heap, index>>

NextEq == kmer_eq \/ equals \/ kmer_eq_all \/ equals_all \/ Return

SpecEq == Init /\ [][NextEq]_vars

\* C5: kmer_eq and equals return true iff the two values have the same length and
\* the same packed words; for values made by the encoders that is iff their
\* decoded texts (and the texts they were made from) are equal; the relation is
\* reflexive, symmetric and transitive.
C5_EqualityIsTextEquality ==
    /\ pc = "kmer_eq" =>
          /\ out = (val[1].length = val[2].length
                    /\ val[1].bit_sequence = val[2].bit_sequence)
          /\ out = (kmer_to_str(val[1]) = kmer_to_str(val[2]))
          /\ out = (args[1] = args[2])
    /\ pc = "equals" =>
          /\ out = (val[1].length = val[2].length
                    /\ val[1].bit_sequence = val[2].bit_sequence)
          /\ out = (dna_to_str(val[1]) = dna_to_str(val[2]))
          /\ out = (args[1] = args[2])
    /\ pc \in {"kmer_eq_all", "equals_all"} =>
          /\ \A i \in 1..3 : out[i][i]
          /\ \A i \in 1..3, j \in 1..3 : out[i][j] = out[j][i]
          /\ \A i \in 1..3, j \in 1..3, k \in 1..3 :
                (out[i][j] /\ out[j][k]) => out[i][k]

\* Two Kmers of different lengths whose packed words are the same (all zero)
\* have been compared, and two Dnas that differ only in their second chunk.
C5_Witness ==
    \/ /\ pc = "kmer_eq"
       /\ val[1].length # val[2].length
       /\ val[1].bit_sequence = val[2].bit_sequence
       /\ ~out
    \/ /\ pc = "equals"
       /\ Len(args[1]) = BasesPerWord + 1
       /\ val[1].bit_sequence[1] = val[2].bit_sequence[1]
       /\ val[1].bit_sequence[2] # val[2].bit_sequence[2]
       /\ ~out

\* ------------------------------------------------------ x ^@ p and q @> x
\* The DNA of the extension's test of ^@.
SampleDna == <<"A", "C", "T", "G", "A", "C", "G", "T", "A", "C", "C">>

\* The k-mers of a text.
Windows(s, k) == {SubSeq(s, i, i + k - 1) : i \in 1..(Len(s) - k + 1)}

\* s is a literal prefix of u.
IsPrefix(s, u) == Len(s) <= Len(u) /\ SubSeq(u, 1, Len(s)) = s

\* SELECT x ^@ p: starts_with(x, p) of two Kmers made by kmer_make.
call_starts_with ==
    /\ pc = "idle"
    /\ \E s \in EqKmerTexts, u \in EqKmerTexts :
       \E mask \in PrefixMasks(Len(u) * 2) :
           /\ pc' = "starts_with"
           /\ args' = <<s, u>>
           /\ val' = <<EqKmers[s], EqKmers[u]>>
           /\ out' = starts_with(val'[1], val'[2], mask)
    /\ UNCHANGED <<heap, index>>

\* K-mers to match a pattern against: the k-mers of SampleDna of its length, or
\* longer ones where it has none, and one of length 1.
ContainsKmerTexts(pattern) ==
    Windows(SampleDna, Len(pattern))
    \cup (IF Len(pattern) > Len(SampleDna)
          THEN {Repeat(seed, Len(pattern)) : seed \in Seeds} ELSE {})
    \cup {<<"A">>}

\* SELECT q @> x: contains(q, x) of a Qkmer made by qkmer_make of src/dna.c and
\* a Kmer made by kmer_make.
call_contains ==
    /\ pc = "idle"
    /\ \E pattern \in (TextsUpTo(IupacSymbols, MaxPatLen) \ {<<>>}) \cup LongPatterns :
       \E s \in ContainsKmerTexts(pattern) :
           /\ pc' = "contains"
           /\ args' = <<pattern, s>>
           /\ val' = <<qkmer_make_pattern(pattern).val, kmer_make(s).val>>
           /\ out' = contains(val'[1], val'[2])
    /\ UNCHANGED <<heap, index>>

NextMatch == call_starts_with \/ call_contains \/ Return

SpecMatch == Init /\ [][NextMatch]_vars

\* C6: for Kmers x and p of lengths 1..32, starts_with(x, p) returns true if the
\* text of p is a literal prefix of the text of x and returns false if it is not.
C6_StartsWithIsPrefix ==
    (/\ pc = "starts_with"
     /\ Len(args[1]) \in 1..KmerMaxLength
     /\ Len(args[2]) \in 1..KmerMaxLength)
    => out = Returned(IsPrefix(args[2], args[1]))

\* C7: for a pattern and a Kmer of equal length, contains returns true iff at
\* every position the k-mer's base is in the set the pattern's symbol denotes.
C7_ContainsIsIupacMatch ==
    LET Denotes(c) ==
            CASE c \in {"A", "C", "G", "T", "U"} -> {c}
              [] c = "W" -> {"A", "T"}
              [] c = "S" -> {"C", "G"}
              [] c = "M" -> {"A", "C"}
              [] c = "K" -> {"G", "T"}
              [] c = "R" -> {"A", "G"}
              [] c = "Y" -> {"C", "T"}
              [] c = "B" -> {"C", "G", "T"}
              [] c = "D" -> {"A", "G", "T"}
              [] c = "H" -> {"A", "C", "T"}
              [] c = "V" -> {"A", "C", "G"}
              [] c = "N" -> Bases
    IN  (pc = "contains" /\ Len(args[1]) = Len(args[2]))
        => out = Returned(\A i \in 1..Len(args[1]) : args[2][i] \in Denotes(args[1][i]))

\* A two-symbol pattern has matched a k-mer that differs from it in both
\* positions, and the 32-symbol pattern of N, U, V has been refused by its U.
C7_Witness ==
    \/ /\ pc = "contains"
       /\ args = <<(<<"R", "Y">>), (<<"G", "T">>)>>
       /\ out = Returned(TRUE)
    \/ /\ pc = "contains"
       /\ Len(args[1]) = KmerMaxLength
       /\ Len(args[2]) = KmerMaxLength
       /\ out = Returned(FALSE)

\* ------------------------------------------------------------ generate_kmers
\* The DNA of the extension's test of generate_kmers.
TestDna == <<"A", "T", "C", "G", "T", "A", "G", "C", "G", "T">>

\* Calls: every short DNA with every window size around its length, the test's
\* call, and DNAs of more than two chunks with a small and the largest window.
GenerateCalls ==
    ((TextsUpTo(Bases, MaxTextLen) \ {<<>>}) \X (0..(MaxTextLen + 1)))
    \cup {<<TestDna, 3>>, <<TestDna, 10>>, <<TestDna, 11>>,
          <<Repeat(TestDna, 2 * BasesPerWord + 2), 3>>,
          <<Repeat(<<"G", "T", "A", "C", "C">>, 2 * BasesPerWord + 2), KmerMaxLength>>,
          <<Repeat(TestDna, KmerMaxLength), KmerMaxLength>>,
          <<Repeat(TestDna, KmerMaxLength - 1), KmerMaxLength>>,
          <<Repeat(TestDna, KmerMaxLength), KmerMaxLength + 1>>}

\* The per-call part of generate_kmers, funcctx being its context and rows what
\* it has returned so far: return the next k-mer (SRF_RETURN_NEXT adds one to
\* call_cntr) or finish (SRF_RETURN_DONE).
PerCall(funcctx, rows) ==
    IF CallsRemain(funcctx.call_cntr, funcctx.max_calls)
    THEN \E kmer_sequence \in WindowTexts(funcctx.dna, funcctx.call_cntr, funcctx.k) :
            /\ pc' = "generate_kmers"
            /\ val' = [funcctx EXCEPT !.call_cntr = @ + 1]
            /\ out' = Append(rows, kmer_make(kmer_sequence).val)
    ELSE /\ pc' = "generate_kmers_done"
         /\ val' = funcctx
         /\ out' = rows

\* The first call of generate_kmers(dna, k): validate k, set up the context,
\* then the per-call part.
generate_kmers_first ==
    /\ pc = "idle"
    /\ \E call \in GenerateCalls :
           /\ args' = call
           /\ IF call[2] <= 0 \/ call[2] > KmerMaxLength
              THEN /\ pc' = "generate_kmers_error"
                   /\ val' = None
                   /\ out' = Raised("Invalid k value: must be between 1 and 32")
              ELSE PerCall([dna |-> dna_make(call[1]).val, k |-> call[2], call_cntr |-> 0,
                            max_calls |-> MaxCallsOf(Len(call[1]), call[2])], <<>>)
    /\ UNCHANGED <<heap, index>>

\* A later call of generate_kmers.  Where max_calls has wrapped around, the
\* calls are followed for MaxWrappedCalls of them.
generate_kmers_next ==
    /\ pc = "generate_kmers"
    /\ val.max_calls < 0 => val.call_cntr < MaxWrappedCalls
    /\ PerCall(val, out)
    /\ UNCHANGED args
    /\ UNCHANGED <<heap, index>>

NextGen == generate_kmers_first \/ generate_kmers_next \/ Return

SpecGen == Init /\ [][NextGen]_vars

\* C8: for a DNA s of length n and 1 <= k <= 32, k <= n, the calls of
\* generate_kmers(s, k) return, in order, the k-mers of the symbols [i, i + k) of
\* s for i = 0, 1, ..., and the call that reports completion comes after exactly
\* n - k + 1 of them.
C8_GenerateKmersWindows ==
    LET s == args[1]
        k == args[2]
    IN  (/\ pc \in {"generate_kmers", "generate_kmers_done", "generate_kmers_error"}
         /\ k >= 1 /\ k <= KmerMaxLength /\ k <= Len(s))
        => /\ pc # "generate_kmers_error"
           /\ Len(out) = val.call_cntr
           /\ Len(out) <= Len(s) - k + 1
           /\ pc = "generate_kmers_done" => Len(out) = Len(s) - k + 1
           /\ \A i \in 1..Len(out) :
                 /\ out[i].length = k
                 /\ kmer_to_str(out[i]) = Returned(SubSeq(s, i, i + k - 1))

\* The test's call has completed with its 8 k-mers, the repeated CGT included,
\* and a call has returned a k-mer of 32 symbols that spans two chunks.
C8_Witness ==
    \/ /\ pc = "generate_kmers_done"
       /\ args = <<TestDna, 3>>
       /\ Len(out) = 8
       /\ out[3] = out[8]
       /\ kmer_to_str(out[8]) = Returned(<<"C", "G", "T">>)
    \/ /\ pc = "generate_kmers"
       /\ args[2] = KmerMaxLength
       /\ Len(out) = BasesPerWord

\* ------------------------------------------------- the SP-GiST index on kmer
\* The host's side of the index: a flat store of tuples.  A leaf chain holds the
\* leaf tuples that hang off one node, each a leaf datum and the number of its
\* heap row; an inner tuple holds its prefix, its node labels and, per node, the
\* number of the tuple below it (0 for none yet).
TrieBases == {"A", "C"}

\* The k-mers inserted and asked for.
TrieKeys == TextsUpTo(TrieBases, MaxKeyLen) \ {<<>>}

\* What the host hands spgist_kmer_choose at the inner tuple the insertion is at.
ChooseIn ==
    LET innerTuple == index[args.current]
    IN  [datum |-> args.datum, leafDatum |-> args.leafDatum, level |-> args.level,
         allTheSame |-> innerTuple.allTheSame, hasPrefix |-> innerTuple.hasPrefix,
         prefixDatum |-> innerTuple.prefixDatum, nNodes |-> Len(innerTuple.nodeLabels),
         nodeLabels |-> innerTuple.nodeLabels]

AtInnerTuple ==
    /\ pc = "spgdoinsert"
    /\ args.current # 0
    /\ index[args.current].kind = "inner"

AtLeafChain ==
    /\ pc = "spgdoinsert"
    /\ args.current # 0
    /\ index[args.current].kind = "leaf"

\* INSERT of one row: the row goes to the heap and its k-mer starts down the
\* index from the root, at level 0, as its own leaf datum.
spgdoinsert ==
    /\ pc = "idle"
    /\ Len(heap) < MaxRows
    /\ \E key \in TrieKeys :
           /\ heap' = Append(heap, KmerDatum(key))
           /\ args' = [datum |-> KmerDatum(key), leafDatum |-> KmerDatum(key),
                       level |-> 0, current |-> 1, parent |-> 0, nodeN |-> 0,
                       heapPtr |-> Len(heap) + 1]
    /\ pc' = "spgdoinsert"
    /\ UNCHANGED <<val, out, index>>

\* The insertion has reached a node with nothing below it, or a leaf chain with
\* room: the leaf tuple is stored there.
addLeafTuple ==
    /\ pc = "spgdoinsert"
    /\ LET leafTuple == [datum |-> args.leafDatum, heapPtr |-> args.heapPtr]
       IN  IF args.current = 0
           THEN index' = Append(
                    [index EXCEPT ![args.parent].downlinks[args.nodeN + 1] =
                                      Len(index) + 1],
                    [kind |-> "leaf", tuples |-> <<leafTuple>>])
           ELSE /\ index[args.current].kind = "leaf"
                /\ Len(index[args.current].tuples) < LeafCapacity
                /\ index' = [index EXCEPT ![args.current].tuples = Append(@, leafTuple)]
    /\ pc' = "inserted"
    /\ UNCHANGED <<args, val, out, heap>>

\* checkAllTheSame of the host: whether picksplit put every tuple (but for the
\* new one, if the tuples are too big for one page) into one node.
checkAllTheSame(in, picked, tooBig) ==
    /\ in.nTuples > 1
    /\ \A i \in 2..(IF tooBig THEN in.nTuples - 1 ELSE in.nTuples) :
           picked.mapTuplesToNodes[i] = picked.mapTuplesToNodes[1]

\* The leaf chain the insertion has reached is full: its tuples and the new one
\* go through spgist_kmer_picksplit, the chain's place is taken by the inner
\* tuple it describes and each of its nodes gets the leaf tuples mapped to it.
\* If every tuple went to one node the host spreads them over
\* AllTheSameNodes nodes with that node's label, i-th tuple to node
\* i % AllTheSameNodes, and may leave the new tuple out, to be routed by choose.
doPickSplit ==
    /\ AtLeafChain
    /\ Len(index[args.current].tuples) >= LeafCapacity
    /\ \E tooBig \in BOOLEAN :
        LET old == index[args.current].tuples
            in == [nTuples |-> Len(old) + 1,
                   datums |-> [i \in 1..(Len(old) + 1) |->
                                  IF i <= Len(old) THEN old[i].datum ELSE args.leafDatum],
                   level |-> args.level]
            heapPtrs == [i \in 1..in.nTuples |->
                            IF i <= Len(old) THEN old[i].heapPtr ELSE args.heapPtr]
            picked == spgist_kmer_picksplit(in)
            allTheSame == checkAllTheSame(in, picked, tooBig)
            includeNew ==
                ~(allTheSame /\ tooBig /\
                  picked.mapTuplesToNodes[in.nTuples] # picked.mapTuplesToNodes[1])
            nNodes == IF allTheSame THEN AllTheSameNodes ELSE picked.nNodes
            nodeLabels ==
                IF allTheSame
                THEN [n \in 1..nNodes |->
                         picked.nodeLabels[picked.mapTuplesToNodes[1] + 1]]
                ELSE picked.nodeLabels
            mapTuplesToNodes ==
                IF allTheSame THEN [i \in 1..in.nTuples |-> (i - 1) % nNodes]
                ELSE picked.mapTuplesToNodes
            included == 1..(IF includeNew THEN in.nTuples ELSE in.nTuples - 1)
            ofNode(n) == Ascending({i \in included : mapTuplesToNodes[i] = n - 1})
            populated == Ascending({n \in 1..nNodes : ofNode(n) # <<>>})
            innerTuple ==
                [kind |-> "inner", builtBy |-> "picksplit", allTheSame |-> allTheSame,
                 hasPrefix |-> picked.hasPrefix, prefixDatum |-> picked.prefixDatum,
                 nodeLabels |-> nodeLabels,
                 downlinks |-> [n \in 1..nNodes |->
                                   IF ofNode(n) = <<>> THEN 0
                                   ELSE Len(index) + PositionOf(n, populated) + 1]]
            chains == [m \in 1..Len(populated) |->
                          [kind |-> "leaf",
                           tuples |-> [j \in 1..Len(ofNode(populated[m])) |->
                                          [datum |-> picked.leafTupleDatums[
                                                         ofNode(populated[m])[j]],
                                           heapPtr |-> heapPtrs[
                                                         ofNode(populated[m])[j]]]]]]
        IN  /\ index' = [index EXCEPT ![args.current] = innerTuple] \o chains
            /\ pc' = IF includeNew THEN "inserted" ELSE "spgdoinsert"
    /\ UNCHANGED <<args, val, out, heap>>

\* The nodes of an allTheSame inner tuple the host's random choice is followed
\* to: each node with something below it and, of the nodes with nothing below
\* them, which all have the same label and differ in nothing, the first.
RandomNodes(innerTuple) ==
    LET empty == {n \in 1..Len(innerTuple.downlinks) : innerTuple.downlinks[n] = 0}
    IN  {n - 1 : n \in {n \in 1..Len(innerTuple.downlinks) :
                           innerTuple.downlinks[n] # 0 \/ n = MinOf(empty)}}

\* spgist_kmer_choose said spgMatchNode: descend to that node (to any node, if
\* the inner tuple is allTheSame), the level raised by levelAdd and the leaf
\* datum replaced by restDatum.
spgMatchNodeAction ==
    /\ AtInnerTuple
    /\ spgist_kmer_choose(ChooseIn).resultType = "spgMatchNode"
    /\ \E nodeN \in 0..(ChooseIn.nNodes - 1) :
           /\ IF ChooseIn.allTheSame
              THEN nodeN \in RandomNodes(index[args.current])
              ELSE nodeN = spgist_kmer_choose(ChooseIn).nodeN
           /\ args' = [args EXCEPT
                          !.level = @ + spgist_kmer_choose(ChooseIn).levelAdd,
                          !.leafDatum = spgist_kmer_choose(ChooseIn).restDatum,
                          !.parent = args.current,
                          !.nodeN = nodeN,
                          !.current = index[args.current].downlinks[nodeN + 1]]
    /\ UNCHANGED <<pc, val, out, heap, index>>

\* A sequence with x put in at position n (from 0).
InsertAt(seq, n, x) == SubSeq(seq, 1, n) \o <<x>> \o SubSeq(seq, n + 1, Len(seq))

\* A heap row whose inserting statement was rolled back: it keeps its place in
\* the heap and no scan sees it.
DeadRow == [length |-> -1, bit_sequence |-> <<>>]

\* The insertion ends in an error: the statement is rolled back and its row is
\* dead; what it did to the index stays.
InsertFails(msg) ==
    /\ pc' = "insert_error"
    /\ out' = Raised(msg)
    /\ heap' = [heap EXCEPT ![Len(heap)] = DeadRow]

\* spgist_kmer_choose said spgAddNode: the inner tuple gets a node with that
\* label at that position, and choose is called on it again.
spgAddNodeAction ==
    /\ AtInnerTuple
    /\ spgist_kmer_choose(ChooseIn).resultType = "spgAddNode"
    /\ IF ChooseIn.allTheSame
       THEN /\ InsertFails("cannot add a node to an allTheSame inner tuple")
            /\ UNCHANGED index
       ELSE /\ index' = [index EXCEPT
                   ![args.current].nodeLabels =
                       InsertAt(@, spgist_kmer_choose(ChooseIn).nodeN,
                                spgist_kmer_choose(ChooseIn).nodeLabel),
                   ![args.current].downlinks =
                       InsertAt(@, spgist_kmer_choose(ChooseIn).nodeN, 0)]
            /\ UNCHANGED <<pc, out, heap>>
    /\ UNCHANGED <<args, val>>

\* spgist_kmer_choose said spgSplitTuple: the inner tuple is replaced by a
\* prefix tuple with the prefix and node labels asked for, whose node childNodeN
\* leads to a new postfix tuple that has the old tuple's nodes; choose is then
\* called on the prefix tuple.  A choose that crashed ends the insertion.
spgSplitNodeAction ==
    /\ AtInnerTuple
    /\ spgist_kmer_choose(ChooseIn).resultType \in {"spgSplitTuple", "SIGSEGV"}
    /\ LET split == spgist_kmer_choose(ChooseIn)
           innerTuple == index[args.current]
       IN  IF split.resultType = "SIGSEGV"
           THEN /\ InsertFails("server process was terminated by signal 11")
                /\ UNCHANGED index
           ELSE IF split.prefixNNodes <= 0
           THEN /\ InsertFails("invalid number of prefix nodes")
                /\ UNCHANGED index
           ELSE IF split.childNodeN < 0 \/ split.childNodeN >= split.prefixNNodes
           THEN /\ InsertFails("invalid child node number")
                /\ UNCHANGED index
           ELSE /\ index' = Append(
                       [index EXCEPT ![args.current] =
                           [kind |-> "inner", builtBy |-> "choose", allTheSame |-> FALSE,
                            hasPrefix |-> split.prefixHasPrefix,
                            prefixDatum |-> split.prefixPrefixDatum,
                            nodeLabels |-> split.prefixNodeLabels,
                            downlinks |-> [n \in 1..split.prefixNNodes |->
                                              IF n = split.childNodeN + 1
                                              THEN Len(index) + 1 ELSE 0]]],
                       [innerTuple EXCEPT !.hasPrefix = split.postfixHasPrefix,
                                          !.prefixDatum = split.postfixPrefixDatum])
                /\ UNCHANGED <<pc, out, heap>>
    /\ UNCHANGED <<args, val>>

\* The results of the scans of the tuples in S.
Gather(S, results) ==
    [rows |-> UNION {results[x].rows : x \in S},
     errors |-> UNION {results[x].errors : x \in S}]

RECURSIVE spgWalk(_, _, _, _)
\* The host's scan below tuple number current, reached at the given level with
\* the given reconstructed value: the heap rows whose leaf tuples
\* spgist_kmer_leaf_consistent accepts, below the nodes
\* spgist_kmer_inner_consistent returns, and the errors raised on the way.
spgWalk(current, level, reconstructedValue, scankeys) ==
    IF index[current].kind = "leaf"
    THEN LET tuples == index[current].tuples
             test == [i \in 1..Len(tuples) |->
                         spgist_kmer_leaf_consistent(
                             [scankeys |-> scankeys, nkeys |-> Len(scankeys),
                              reconstructedValue |-> reconstructedValue,
                              level |-> level, leafDatum |-> tuples[i].datum])]
         IN  [rows |-> {tuples[i].heapPtr : i \in {i \in 1..Len(tuples) :
                            ~IsError(test[i]) /\ test[i].val.result}},
              errors |-> {test[i].err : i \in {i \in 1..Len(tuples) : IsError(test[i])}}]
    ELSE LET innerTuple == index[current]
             nNodes == Len(innerTuple.nodeLabels)
             res == spgist_kmer_inner_consistent(
                        [scankeys |-> scankeys, nkeys |-> Len(scankeys),
                         reconstructedValue |-> reconstructedValue, level |-> level,
                         allTheSame |-> innerTuple.allTheSame,
                         hasPrefix |-> innerTuple.hasPrefix,
                         prefixDatum |-> innerTuple.prefixDatum,
                         nNodes |-> nNodes, nodeLabels |-> innerTuple.nodeLabels])
         IN  IF IsError(res) THEN [rows |-> {}, errors |-> {res.err}]
             ELSE IF innerTuple.allTheSame /\ res.val.nNodes # 0
                     /\ res.val.nNodes # nNodes
             THEN [rows |-> {},
                   errors |-> {"inconsistent inner_consistent results for allTheSame inner tuple"}]
             ELSE LET down == {n \in 1..res.val.nNodes :
                                  innerTuple.downlinks[res.val.nodeNumbers[n] + 1] # 0}
                  IN  Gather(down,
                          [n \in down |->
                              spgWalk(innerTuple.downlinks[res.val.nodeNumbers[n] + 1],
                                      level + res.val.levelAdds[n],
                                      res.val.reconstructedValues[n], scankeys)])

\* The operator of a scan key applied to a row, as a sequential scan's filter
\* applies it: kmer_eq for =, starts_with for ^@.
RowTest(kmer, key, mask) ==
    IF key.sk_strategy = BTEqualStrategyNumber
    THEN Returned(kmer_eq_internal(kmer, key.sk_argument))
    ELSE starts_with(kmer, key.sk_argument, mask)

\* SELECT ... WHERE over the heap without the index.
SeqScan(scankeys, mask) ==
    LET live == {r \in 1..Len(heap) : heap[r] # DeadRow}
        test == [r \in live |->
                    [i \in 1..Len(scankeys) |-> RowTest(heap[r], scankeys[i], mask)]]
    IN  [rows |-> {r \in live :
                      \A i \in 1..Len(scankeys) :
                          ~IsError(test[r][i]) /\ test[r][i].val},
         errors |-> {test[x[1]][x[2]].err :
                        x \in {x \in live \X (1..Len(scankeys)) :
                                  IsError(test[x[1]][x[2]])}}]

\* The k-mers of a set of heap rows, each with the number of rows that have it.
KmersOf(rows) ==
    [kmer \in {heap[r] : r \in rows} |-> Cardinality({r \in rows : heap[r] = kmer})]

\* SELECT ... WHERE kmer = q, or WHERE kmer ^@ q: once through the index
\* (enable_seqscan = off) and once by sequential scan.
index_scan ==
    /\ pc = "idle"
    /\ \E strategy \in {BTEqualStrategyNumber, RTPrefixStrategyNumber} :
       \E key \in TrieKeys :
       \E mask \in PrefixMasks(Len(key) * 2) :
           /\ args' = <<[sk_strategy |-> strategy, sk_argument |-> KmerDatum(key)]>>
           /\ out' = spgWalk(1, 0, NullDatum, args')
           /\ val' = SeqScan(args', mask)
    /\ pc' = "scan"
    /\ UNCHANGED <<heap, index>>

NextTrie ==
    \/ spgdoinsert \/ addLeafTuple \/ doPickSplit
    \/ spgMatchNodeAction \/ spgAddNodeAction \/ spgSplitNodeAction
    \/ index_scan \/ Return

SpecTrie == Init /\ [][NextTrie]_vars

\* C1: whatever k-mers have been inserted, an = or ^@ query through the index
\* returns the same k-mers, each as many times, as the sequential scan that
\* applies the operator to every row (where that scan raises no error).
C1_IndexScanEqualsSeqScan ==
    (pc = "scan" /\ val.errors = {})
    => (out.errors = {} /\ KmersOf(out.rows) = KmersOf(val.rows))

\* ------------------------------------------- characters outside A, T, C, G
\* src/unnamed/part_003 holds a second version of the Kmer encoder, which lets
\* the character X through.
\* One step of the switch of that encode_kmer.
KmerCharCode_part003(c) == IF c = "X" THEN 0 ELSE KmerCharCode(c)

\* encode_kmer(sequence, length) of src/unnamed/part_003.
encode_kmer_part003(sequence, length) ==
    IF length <= 0 \/ length > KmerMaxLength
    THEN Raised("K-mer length must be between 1 and 32 nucleotides")
    ELSE IF \E i \in 0..(length - 1) : KmerCharCode_part003(sequence[i + 1]) < 0
         THEN Raised("Invalid character in K-mer")
         ELSE Returned([j \in 1..BasesPerWord |->
                  OrAll({KmerCharCode_part003(sequence[i + 1]) :
                         i \in {i \in 0..(length - 1) : (i * 2) \div 2 = j - 1}})])

\* validate_kmer_sequence(sequence) of src/unnamed/part_003.
validate_kmer_sequence_part003(sequence) ==
    IF Len(sequence) = 0
    THEN "K-mer sequence cannot be empty"
    ELSE IF Len(sequence) > KmerMaxLength
    THEN "K-mer length cannot exceed 32 nucleotides"
    ELSE IF \E i \in 1..Len(sequence) : sequence[i] \notin Bases \cup {"X"}
         THEN "Invalid character in K-mer sequence"
         ELSE NoError

\* kmer_make(sequence) of src/unnamed/part_003.
kmer_make_part003(sequence) ==
    IF validate_kmer_sequence_part003(sequence) # NoError
    THEN Raised(validate_kmer_sequence_part003(sequence))
    ELSE LET enc == encode_kmer_part003(sequence, Len(sequence))
         IN  IF IsError(enc) THEN enc
             ELSE Returned([length |-> Len(sequence), bit_sequence |-> enc.val])

\* Characters that are none of A, T, C, G: one of no alphabet, the X of
\* src/unnamed/part_003, a lower-case letter and an IUPAC code.
OtherChars == {Foreign, "X", "a", "N"}

\* Long texts with one character replaced, at the start or at the end.
Spoiled(texts) ==
    {[t EXCEPT ![i] = c] : t \in texts, i \in {1, 2}, c \in OtherChars}
    \cup {[t EXCEPT ![Len(t)] = c] : t \in texts, c \in OtherChars}

EncoderKmerTexts ==
    TextsUpTo(Bases \cup {Foreign, "X"}, MaxTextLen) \cup Spoiled(LongKmerTexts)
    \cup {<<c>> : c \in OtherChars}
EncoderDnaTexts ==
    TextsUpTo(Bases \cup {Foreign, "X"}, MaxTextLen) \cup Spoiled(LongDnaTexts)
    \cup {<<c>> : c \in OtherChars}

\* kmer_in(str) of src/dna.c, followed by kmer_out of what it returned.
encode_kmer_text ==
    /\ pc = "idle"
    /\ \E str \in EncoderKmerTexts :
           /\ args' = <<str>>
           /\ val' = kmer_make(str)
           /\ out' = IF IsError(val') THEN None ELSE kmer_to_str(val'.val)
    /\ pc' = "kmer_make"
    /\ UNCHANGED <<heap, index>>

\* kmer_in(str) of src/unnamed/part_003, followed by kmer_out.
encode_kmer_text_part003 ==
    /\ pc = "idle"
    /\ \E str \in EncoderKmerTexts :
           /\ args' = <<str>>
           /\ val' = kmer_make_part003(str)
           /\ out' = IF IsError(val') THEN None ELSE kmer_to_str(val'.val)
    /\ pc' = "kmer_make_part003"
    /\ UNCHANGED <<heap, index>>

\* dna_in(str), followed by dna_out of what it returned.
encode_dna_text ==
    /\ pc = "idle"
    /\ \E str \in EncoderDnaTexts :
           /\ args' = <<str>>
           /\ val' = dna_make(str)
           /\ out' = IF IsError(val') THEN None ELSE Returned(dna_to_str(val'.val))
    /\ pc' = "dna_make"
    /\ UNCHANGED <<heap, index>>

NextEncoder == encode_kmer_text \/ encode_kmer_text_part003 \/ encode_dna_text \/ Return

SpecEncoder == Init /\ [][NextEncoder]_vars

\* The messages of the errors raised for a character that is not a nucleotide.
InvalidSymbol == {"Invalid character in K-mer sequence", "Invalid character in K-mer",
                  "Invalid character in DNA sequence"}

\* C11: a text with a character other than A, T, C, G is rejected by the Kmer
\* and the Sequence encoder, and rejected with the invalid-character error.
C11_OnlyNucleotidesAccepted ==
    (pc \in {"kmer_make", "kmer_make_part003", "dna_make"} /\ ~IsBaseText(args[1]))
    => (IsError(val) /\ val.err \in InvalidSymbol)

\* ------------------------------------------------ which texts are patterns
\* IUPAC texts at and just over the length ceiling, and the same with one
\* character replaced by one of no alphabet.
PatternEdgeTexts ==
    LET edge == {Repeat(seed, n) : seed \in {TestPattern, <<"N">>},
                                   n \in {KmerMaxLength, KmerMaxLength + 1}}
    IN  edge \cup {[t EXCEPT ![i] = Foreign] : t \in edge, i \in {1, KmerMaxLength}}

EncoderPatternTexts ==
    TextsUpTo(IupacSymbols \cup {Foreign, "a"}, MaxPatLen) \cup PatternEdgeTexts

\* qkmer_in(str) with the Qkmer of src/dna.c.
encode_pattern_text ==
    /\ pc = "idle"
    /\ \E str \in EncoderPatternTexts :
           /\ args' = <<str>>
           /\ val' = qkmer_make_pattern(str)
    /\ pc' = "qkmer_make_pattern"
    /\ out' = None
    /\ UNCHANGED <<heap, index>>

\* qkmer_in(str) with the Qkmer of src/qkmer.c.
encode_pattern_text_packed ==
    /\ pc = "idle"
    /\ \E str \in EncoderPatternTexts :
           /\ args' = <<str>>
           /\ val' = qkmer_make(str)
    /\ pc' = "qkmer_make"
    /\ out' = None
    /\ UNCHANGED <<heap, index>>

NextPattern == encode_pattern_text \/ encode_pattern_text_packed \/ Return

SpecPattern == Init /\ [][NextPattern]_vars

\* C12: a text becomes a Pattern exactly if it is not empty, has at most 32
\* symbols and every character of it is an IUPAC symbol; otherwise an error is
\* raised and there is no Pattern.
C12_PatternAcceptedIff ==
    pc \in {"qkmer_make_pattern", "qkmer_make"}
    => (~IsError(val) <=> (/\ Len(args[1]) > 0
                           /\ Len(args[1]) <= KmerMaxLength
                           /\ IsPatternText(args[1])))

\* ------------------------------------------------ the Kmer values produced
\* kmer_recv(buf): the Kmer read from a message that holds a length and a
\* 64-bit word, or the error raised.
kmer_recv_internal(length, bit_sequence) ==
    IF length <= 0 \/ length > KmerMaxLength
    THEN Raised("Invalid K-mer length: must be between 1 and 32")
    ELSE Returned([length |-> length, bit_sequence |-> bit_sequence])

\* The lengths and words of the messages received: what kmer_send writes for a
\* Kmer, and other words.
RecvLengths == {-1, 0, 1, 2, KmerMaxLength - 1, KmerMaxLength, KmerMaxLength + 1}
RecvWords ==
    {ZeroWord(BasesPerWord), [j \in 1..BasesPerWord |-> 3]}
    \cup {kmer_make(t).val.bit_sequence :
             t \in (TextsUpTo(Bases, MaxPairLen) \cup
                    {Repeat(s, KmerMaxLength) : s \in Seeds})}

\* kmer_recv of a binary message.
kmer_recv ==
    /\ pc = "idle"
    /\ \E length \in RecvLengths, word \in RecvWords :
           /\ args' = <<length, word>>
           /\ val' = kmer_recv_internal(length, word)
    /\ pc' = "kmer_recv"
    /\ out' = None
    /\ UNCHANGED <<heap, index>>

\* The datums of a set that are Kmers, not (Datum) 0.
KmersAmong(S) == S \ {NullDatum}

\* The index callbacks on small inputs: picksplit of two leaf datums at level 0,
\* then choose and inner_consistent on the inner tuple it describes; out is the
\* set of Kmer values the three of them built.
index_callbacks ==
    /\ pc = "idle"
    /\ \E a \in TrieKeys, b \in TrieKeys, q \in TrieKeys,
          strategy \in {BTEqualStrategyNumber, RTPrefixStrategyNumber} :
        LET picked == spgist_kmer_picksplit(
                          [nTuples |-> 2, level |-> 0,
                           datums |-> <<KmerDatum(a), KmerDatum(b)>>])
            chosen == spgist_kmer_choose(
                          [datum |-> KmerDatum(q), leafDatum |-> KmerDatum(q),
                           level |-> 0, allTheSame |-> FALSE,
                           hasPrefix |-> picked.hasPrefix,
                           prefixDatum |-> picked.prefixDatum,
                           nNodes |-> picked.nNodes, nodeLabels |-> picked.nodeLabels])
            inner == spgist_kmer_inner_consistent(
                          [scankeys |-> <<[sk_strategy |-> strategy,
                                           sk_argument |-> KmerDatum(q)]>>,
                           nkeys |-> 1, reconstructedValue |-> NullDatum, level |-> 0,
                           allTheSame |-> FALSE, hasPrefix |-> picked.hasPrefix,
                           prefixDatum |-> picked.prefixDatum,
                           nNodes |-> picked.nNodes, nodeLabels |-> picked.nodeLabels])
        IN  /\ args' = <<a, b, q, strategy>>
            /\ val' = [picksplit |-> picked, choose |-> chosen, inner_consistent |-> inner]
            /\ out' = KmersAmong(
                   {picked.prefixDatum}
                   \cup {picked.leafTupleDatums[i] : i \in 1..2}
                   \cup (IF chosen.resultType = "spgMatchNode" THEN {chosen.restDatum}
                         ELSE IF chosen.resultType = "spgSplitTuple"
                         THEN {chosen.prefixPrefixDatum, chosen.postfixPrefixDatum}
                         ELSE {})
                   \cup (IF IsError(inner) THEN {}
                         ELSE {inner.val.reconstructedValues[n] :
                                  n \in 1..inner.val.nNodes}))
    /\ pc' = "index_callbacks"
    /\ UNCHANGED <<heap, index>>

NextValues ==
    \/ kmer_in \/ kmer_recv \/ generate_kmers_first \/ generate_kmers_next
    \/ index_callbacks \/ Return

SpecValues == Init /\ [][NextValues]_vars

\* length is at most 32 and every bit from position 2 * length on is zero.
WellFormed(kmer) ==
    /\ kmer.length <= KmerMaxLength
    /\ \A j \in kmer.length..(BasesPerWord - 1) : DigitOf(kmer.bit_sequence, j) = 0

\* C13: every Kmer produced by kmer_make, by kmer_recv, by generate_kmers or
\* inside the index callbacks has length <= 32 and no bit set at or above
\* position 2 * length.
C13_KmerWellFormed ==
    /\ (pc \in {"kmer_in", "kmer_recv"} /\ ~IsError(val)) => WellFormed(val.val)
    /\ pc \in {"generate_kmers", "generate_kmers_done"}
       => \A r \in 1..Len(out) : WellFormed(out[r])
    /\ pc = "index_callbacks" => \A kmer \in out : WellFormed(kmer)

\* ------------------------------------------------------------- kmer_hash
\* The bytes of a 64-bit word, lowest first: byte n holds digits 4n .. 4n + 3.
BytesOf(word) ==
    [n \in 1..(BasesPerWord \div 4) |->
        DigitOf(word, 4 * n - 4) + 4 * DigitOf(word, 4 * n - 3)
        + 16 * DigitOf(word, 4 * n - 2) + 64 * DigitOf(word, 4 * n - 1)]

HashModulus == 65536

RECURSIVE hash_any(_, _)
\* hash_any(data, keylen) of the host: a fixed function of the keylen bytes at
\* data and of nothing else.  Which function it is does not matter here; this
\* one folds the bytes into a number below HashModulus.
hash_any(data, keylen) ==
    IF keylen = 0 THEN 0
    ELSE (31 * hash_any(data, keylen - 1) + data[keylen] + 1) % HashModulus

\* kmer_hash(input): hash_any over the 8 bytes of input->bit_sequence.
kmer_hash_internal(input) == hash_any(BytesOf(input.bit_sequence), BasesPerWord \div 4)

\* Whether a hash table that holds kmer1 takes kmer2 for the same key: same
\* hash value, then equal by the = of kmer_hash_ops.
SameGroup(kmer1, kmer2) ==
    /\ kmer_hash_internal(kmer1) = kmer_hash_internal(kmer2)
    /\ kmer_eq_internal(kmer1, kmer2)

\* GROUP BY over the rows, by hashing: one group for each row that no earlier
\* row is in the same group with, counting the rows in the same group with it.
HashAggregate(rows) ==
    LET firsts == {i \in 1..Len(rows) :
                      \A j \in 1..(i - 1) : ~SameGroup(rows[j], rows[i])}
    IN  {[kmer |-> rows[i],
          count |-> Cardinality({j \in 1..Len(rows) : SameGroup(rows[i], rows[j])})] :
         i \in firsts}

\* The sum of the counts of a set of groups.
RECURSIVE TotalCount(_)
TotalCount(groups) ==
    IF groups = {} THEN 0
    ELSE LET g == CHOOSE g \in groups : TRUE
         IN  g.count + TotalCount(groups \ {g})

\* kmer_hash and kmer_eq of two Kmers.
kmer_hash ==
    /\ pc = "idle"
    /\ \E s \in EqKmerTexts, t \in EqKmerTexts :
           /\ args' = <<EqKmers[s], EqKmers[t]>>
           /\ val' = <<kmer_hash_internal(EqKmers[s]), kmer_hash_internal(EqKmers[t])>>
           /\ out' = kmer_eq_internal(EqKmers[s], EqKmers[t])
    /\ pc' = "kmer_hash"
    /\ UNCHANGED <<heap, index>>

\* SELECT k.kmer, count(*) FROM generate_kmers(...) AS k(kmer) GROUP BY k.kmer,
\* once generate_kmers has returned its last row.
group_by_kmer ==
    /\ pc = "generate_kmers_done"
    /\ pc' = "group_by_kmer"
    /\ val' = out
    /\ out' = HashAggregate(out)
    /\ UNCHANGED <<args, heap, index>>

NextHash ==
    \/ kmer_hash \/ generate_kmers_first \/ generate_kmers_next \/ group_by_kmer
    \/ Return

SpecHash == Init /\ [][NextHash]_vars

\* C14: Kmers that kmer_eq calls equal have the same kmer_hash, and grouping the
\* k-mers of generate_kmers by hash gives one group for each distinct k-mer,
\* the group sizes adding up to the number of k-mers generated.
C14_HashConsistentWithEq ==
    /\ (pc = "kmer_hash" /\ out) => val[1] = val[2]
    /\ pc = "group_by_kmer"
       => /\ {g.kmer : g \in out} = {val[r] : r \in 1..Len(val)}
          /\ Cardinality(out) = Cardinality({val[r] : r \in 1..Len(val)})
          /\ TotalCount(out) = Len(val)

\* Two different Kmers of equal text were hashed, and a DNA with a repeated
\* k-mer was grouped.
C14_Witness ==
    \/ pc = "kmer_hash" /\ out /\ args[1].length = KmerMaxLength
    \/ /\ pc = "group_by_kmer"
       /\ Cardinality(out) > 1
       /\ \E g \in out : g.count > 1

\* ------------------------------------------------------- the size of a Dna
\* char vl_len_[4]
VarHeaderBytes == 4
\* sizeof(uint64_t), which is also its alignment
SizeofUint64 == 8
\* sizeof(int32), which is also its alignment
SizeofInt32 == 4

\* The least multiple of align that is not below offset.
AlignUp(offset, align) == ((offset + align - 1) \div align) * align

\* offsetof(Dna, bit_sequence) for a Dna whose length member takes lengthBytes
\* bytes: the header, the length at its alignment, the array at its own.
OffsetofBitSequence(lengthBytes) ==
    AlignUp(AlignUp(VarHeaderBytes, lengthBytes) + lengthBytes, SizeofUint64)

\* dna_size of dna_make in src/dna.c, where Dna.length is a uint64_t.
dna_size(length) == OffsetofBitSequence(SizeofUint64) + BitLength(length) * SizeofUint64

\* dna_size of dna_make in src/unnamed/part_004, where Dna.length is an int32.
dna_size_part004(length) ==
    OffsetofBitSequence(SizeofInt32) + BitLength(length) * SizeofUint64

\* The DNA texts measured: the short ones and those of one and two words.
SizeTexts == (TextsUpTo(Bases, MaxTextLen) \ {<<>>}) \cup LongDnaTexts

\* SELECT pg_column_size(dna(str)) with the Dna of src/dna.c: the size that
\* dna_make gave SET_VARSIZE.
pg_column_size ==
    /\ pc = "idle"
    /\ \E str \in SizeTexts :
           /\ args' = <<str>>
           /\ val' = dna_make(str)
           /\ out' = dna_size(Len(str))
    /\ pc' = "pg_column_size"
    /\ UNCHANGED <<heap, index>>

\* The same with the Dna of src/unnamed/part_004.
pg_column_size_part004 ==
    /\ pc = "idle"
    /\ \E str \in SizeTexts :
           /\ args' = <<str>>
           /\ val' = dna_make(str)
           /\ out' = dna_size_part004(Len(str))
    /\ pc' = "pg_column_size_part004"
    /\ UNCHANGED <<heap, index>>

NextSize == pg_column_size \/ pg_column_size_part004 \/ Return

SpecSize == Init /\ [][NextSize]_vars

\* C15: a Sequence of 64 symbols takes 24 bytes, whatever the symbols: 16 for
\* the packed array, 4 for the length and 4 for the header.
C15_SixtyFourSymbolsIn24Bytes ==
    (pc \in {"pg_column_size", "pg_column_size_part004"}
     /\ Len(args[1]) = 2 * BasesPerWord)
    => /\ ~IsError(val)
       /\ Len(val.val.bit_sequence) * SizeofUint64 = 16
       /\ out = 24

\* ------------------------------------------- containment through the index
\* spgist_kmer_ops lists @> (qkmer, kmer) as its operator 3.  A scan key for it
\* reaches the consistent functions with sk_strategy 3, which is
\* BTEqualStrategyNumber, and with a Qkmer as sk_argument, which they read
\* with DatumGetKmerP.
\* qkmer_size of qkmer_make: the header, the characters and the terminator.
QkmerSize(qkmer) == VarHeaderBytes + Len(qkmer.sequence) + 1

\* The int32 at the start of a Qkmer, where a Kmer has its length: the 4-byte
\* varlena header, which holds the size times 4 on a little-endian build and
\* the size on a big-endian one.
HeaderAsLength(qkmer) == {4 * QkmerSize(qkmer), QkmerSize(qkmer)}

\* The 8 bytes at offset 8 of a Qkmer, where a Kmer has its bit_sequence: for a
\* pattern of fewer than 4 symbols they lie past the end of the Qkmer and hold
\* any bits.
BytesPastQkmer ==
    {ZeroWord(BasesPerWord), [j \in 1..BasesPerWord |-> j % 4]}

\* What DatumGetKmerP can make of a Qkmer datum.
QkmerAsKmer(qkmer) ==
    {[length |-> length, bit_sequence |-> word] :
        length \in HeaderAsLength(qkmer), word \in BytesPastQkmer}

\* The patterns asked for: of the stored k-mers' lengths, over two bases and
\* the symbol for any base.
TriePatterns == TextsUpTo(TrieBases \cup {"N"}, MaxKeyLen) \ {<<>>}

\* SELECT ... WHERE qkmer @> kmer by sequential scan: contains on every row.
SeqScanContains(qkmer) ==
    LET live == {r \in 1..Len(heap) : heap[r] # DeadRow}
        test == [r \in live |-> contains(qkmer, heap[r])]
    IN  [rows |-> {r \in live : ~IsError(test[r]) /\ test[r].val},
         errors |-> {test[r].err : r \in {r \in live : IsError(test[r])}}]

\* SELECT ... WHERE qkmer @> kmer: once through the index and once by
\* sequential scan.
index_scan_contains ==
    /\ pc = "idle"
    /\ \E pattern \in TriePatterns :
       \E query \in QkmerAsKmer(qkmer_make_pattern(pattern).val) :
           /\ args' = <<[sk_strategy |-> BTEqualStrategyNumber, sk_argument |-> query],
                        pattern>>
           /\ out' = spgWalk(1, 0, NullDatum, <<args'[1]>>)
           /\ val' = SeqScanContains(qkmer_make_pattern(pattern).val)
    /\ pc' = "scan_contains"
    /\ UNCHANGED <<heap, index>>

NextTrieContains ==
    \/ spgdoinsert \/ addLeafTuple \/ doPickSplit
    \/ spgMatchNodeAction \/ spgAddNodeAction \/ spgSplitNodeAction
    \/ index_scan_contains \/ Return

SpecTrieContains == Init /\ [][NextTrieContains]_vars

\* C16: a containment query through the index returns exactly the stored
\* k-mers that contains(pattern, kmer) holds for (where the sequential scan
\* raises no error, that is, where every stored k-mer has the pattern's length).
C16_ContainsThroughIndex ==
    (pc = "scan_contains" /\ val.errors = {})
    => (out.errors = {} /\ KmersOf(out.rows) = KmersOf(val.rows))

\* --------------------------------------------- the values leaves stand for
RECURSIVE spgWalkLeafValues(_, _, _, _)
\* The host's scan below tuple number current, as spgWalk, returning as rows
\* each leaf tuple reached: its heap row with what
\* spgist_kmer_leaf_consistent answered for it.
spgWalkLeafValues(current, level, reconstructedValue, scankeys) ==
    IF index[current].kind = "leaf"
    THEN LET tuples == index[current].tuples
         IN  [rows |-> {[heapPtr |-> tuples[i].heapPtr,
                         test |-> spgist_kmer_leaf_consistent(
                             [scankeys |-> scankeys, nkeys |-> Len(scankeys),
                              reconstructedValue |-> reconstructedValue,
                              level |-> level, leafDatum |-> tuples[i].datum])] :
                        i \in 1..Len(tuples)},
              errors |-> {}]
    ELSE LET innerTuple == index[current]
             nNodes == Len(innerTuple.nodeLabels)
             res == spgist_kmer_inner_consistent(
                        [scankeys |-> scankeys, nkeys |-> Len(scankeys),
                         reconstructedValue |-> reconstructedValue, level |-> level,
                         allTheSame |-> innerTuple.allTheSame,
                         hasPrefix |-> innerTuple.hasPrefix,
                         prefixDatum |-> innerTuple.prefixDatum,
                         nNodes |-> nNodes, nodeLabels |-> innerTuple.nodeLabels])
         IN  IF IsError(res) THEN [rows |-> {}, errors |-> {res.err}]
             ELSE LET down == {n \in 1..res.val.nNodes :
                                  innerTuple.downlinks[res.val.nodeNumbers[n] + 1] # 0}
                  IN  Gather(down,
                          [n \in down |->
                              spgWalkLeafValues(
                                  innerTuple.downlinks[res.val.nodeNumbers[n] + 1],
                                  level + res.val.levelAdds[n],
                                  res.val.reconstructedValues[n], scankeys)])

\* A scan of the whole index, without scan keys: no node is pruned and every
\* leaf tuple is reconstructed.
full_index_scan ==
    /\ pc = "idle"
    /\ pc' = "full_index_scan"
    /\ args' = <<>>
    /\ val' = None
    /\ out' = spgWalkLeafValues(1, 0, NullDatum, <<>>)
    /\ UNCHANGED <<heap, index>>

NextTrieValues ==
    \/ spgdoinsert \/ addLeafTuple \/ doPickSplit
    \/ spgMatchNodeAction \/ spgAddNodeAction \/ spgSplitNodeAction
    \/ full_index_scan \/ Return

SpecTrieValues == Init /\ [][NextTrieValues]_vars

\* C17: at the leaf of every inserted k-mer v, the value that leaf_consistent
\* puts together from the reconstructed value handed down by inner_consistent
\* and the stored leaf datum is v.
C17_LeafValueIsInserted ==
    pc = "full_index_scan"
    => /\ out.errors = {}
       /\ \A leaf \in out.rows :
              /\ ~IsError(leaf.test)
              /\ leaf.test.val.leafValue = heap[leaf.heapPtr]

\* ------------------------------------------- leaf_consistent on its inputs
\* The k-mers whose leaves are tested: the short ones and two of full length.
LeafKeys ==
    TrieKeys \cup {Repeat(<<"A">>, KmerMaxLength),
                   Append(Repeat(<<"A">>, KmerMaxLength - 1), "C")}

LeafQueries == TrieKeys \cup {Repeat(<<"A">>, KmerMaxLength)}

\* What the host hands spgist_kmer_leaf_consistent for one scan key.
LeafConsistentIn(reconstructedValue, level, leafDatum, strategy, q) ==
    [scankeys |-> <<[sk_strategy |-> strategy, sk_argument |-> KmerDatum(q)]>>,
     nkeys |-> 1, reconstructedValue |-> reconstructedValue, level |-> level,
     leafDatum |-> leafDatum]

\* The leaf test of a tuple on the root page: nothing is accumulated yet and
\* the leaf datum is the whole k-mer.
leaf_consistent_at_root ==
    /\ pc = "idle"
    /\ \E a \in LeafKeys, q \in LeafQueries,
          strategy \in {BTEqualStrategyNumber, RTPrefixStrategyNumber} :
        /\ args' = <<NullDatum, 0, KmerDatum(a), strategy, q>>
        /\ val' = spgist_kmer_leaf_consistent(
                      LeafConsistentIn(NullDatum, 0, KmerDatum(a), strategy, q))
    /\ pc' = "leaf_consistent"
    /\ out' = None
    /\ UNCHANGED <<heap, index>>

\* The leaf test of a tuple below an inner tuple: picksplit wrote the leaf
\* datums of a and b, inner_consistent hands down the accumulated value and the
\* level of the node the tuple went to.
leaf_consistent_below ==
    /\ pc = "idle"
    /\ \E a \in LeafKeys, b \in LeafKeys, i \in 1..2, q \in LeafQueries,
          strategy \in {BTEqualStrategyNumber, RTPrefixStrategyNumber} :
        LET picked == spgist_kmer_picksplit(
                          [nTuples |-> 2, level |-> 0,
                           datums |-> <<KmerDatum(a), KmerDatum(b)>>])
            inner == spgist_kmer_inner_consistent(
                          [scankeys |-> <<>>, nkeys |-> 0,
                           reconstructedValue |-> NullDatum, level |-> 0,
                           allTheSame |-> FALSE, hasPrefix |-> picked.hasPrefix,
                           prefixDatum |-> picked.prefixDatum,
                           nNodes |-> picked.nNodes, nodeLabels |-> picked.nodeLabels])
            n == picked.mapTuplesToNodes[i] + 1
        IN  /\ ~IsError(inner)
            /\ args' = <<inner.val.reconstructedValues[n], inner.val.levelAdds[n],
                         picked.leafTupleDatums[i], strategy, q>>
            /\ val' = spgist_kmer_leaf_consistent(
                          LeafConsistentIn(inner.val.reconstructedValues[n],
                                           inner.val.levelAdds[n],
                                           picked.leafTupleDatums[i], strategy, q))
    /\ pc' = "leaf_consistent"
    /\ out' = None
    /\ UNCHANGED <<heap, index>>

NextLeaf == leaf_consistent_at_root \/ leaf_consistent_below \/ Return

SpecLeaf == Init /\ [][NextLeaf]_vars

\* The accumulated value followed by the leaf suffix.
Concatenation(reconstructedValue, level, leafDatum) ==
    SubSeq(KmerText(reconstructedValue), 1, level) \o KmerText(leafDatum)

\* C18: leaf_consistent raises no error, answers true exactly when the
\* accumulated value followed by the leaf suffix equals the query (Equals) or
\* has the query as a prefix (StartsWith), returns that concatenation as the
\* leaf value and sets recheck to false.
C18_LeafConsistentExact ==
    pc = "leaf_consistent"
    => LET full == Concatenation(args[1], args[2], args[3])
       IN  /\ ~IsError(val)
           /\ val.val.result = (IF args[4] = BTEqualStrategyNumber
                                THEN full = args[5] ELSE IsPrefix(args[5], full))
           /\ val.val.leafValue.length = Len(full)
           /\ KmerText(val.val.leafValue) = full
           /\ val.val.recheck = FALSE

\* ------------------------------------------ inner_consistent on its inputs
\* The reconstructed values handed down to an inner tuple: none at the root,
\* one symbol at level 1.
InnerReconstructed == TextsUpTo(TrieBases, 1)

\* The leaf datums picksplit made the inner tuple from.
InnerDatums == TextsUpTo(TrieBases, MaxKeyLen)

\* The scan keys' arguments: up to one symbol longer than what is accumulated.
InnerQueries == TextsUpTo(TrieBases, MaxKeyLen + 1) \ {<<>>}

\* spgist_kmer_inner_consistent at an inner tuple that picksplit made at the
\* level of the reconstructed value r from the leaf datums a and b, for one
\* scan key.
inner_consistent ==
    /\ pc = "idle"
    /\ \E r \in InnerReconstructed, a \in InnerDatums, b \in InnerDatums,
          q \in InnerQueries,
          strategy \in {BTEqualStrategyNumber, RTPrefixStrategyNumber} :
        LET picked == spgist_kmer_picksplit(
                          [nTuples |-> 2, level |-> Len(r),
                           datums |-> <<KmerDatum(a), KmerDatum(b)>>])
            in == [scankeys |-> <<[sk_strategy |-> strategy,
                                   sk_argument |-> KmerDatum(q)]>>,
                   nkeys |-> 1,
                   reconstructedValue |-> IF r = <<>> THEN NullDatum ELSE KmerDatum(r),
                   level |-> Len(r), allTheSame |-> FALSE,
                   hasPrefix |-> picked.hasPrefix, prefixDatum |-> picked.prefixDatum,
                   nNodes |-> picked.nNodes, nodeLabels |-> picked.nodeLabels]
        IN  /\ a # b
            /\ args' = <<in, strategy, q>>
            /\ val' = spgist_kmer_inner_consistent(in)
    /\ pc' = "inner_consistent"
    /\ out' = None
    /\ UNCHANGED <<heap, index>>

NextInner == inner_consistent \/ Return

SpecInner == Init /\ [][NextInner]_vars

\* The string accumulated for child i of an inner tuple: the reconstructed
\* value, then the tuple's prefix, then the child's label if it is a symbol.
AccumulatedString(in, i) ==
    (IF in.reconstructedValue # NullDatum THEN KmerText(in.reconstructedValue) ELSE <<>>)
    \o (IF in.hasPrefix THEN KmerText(in.prefixDatum) ELSE <<>>)
    \o (IF in.nodeLabels[i] >= 0 THEN <<CodeChar(in.nodeLabels[i])>> ELSE <<>>)

\* Two strings agree on their first min(length, length) symbols.
AgreeOnSpan(s, q) ==
    SubSeq(s, 1, Min(Len(s), Len(q))) = SubSeq(q, 1, Min(Len(s), Len(q)))

\* The children (from 1) an answer of inner_consistent keeps.
KeptChildren(res) == {res.val.nodeNumbers[n] + 1 : n \in 1..res.val.nNodes}

\* C19: for an Equals key, inner_consistent keeps child i exactly when the
\* string accumulated for it agrees with the query on the first
\* min(accumulated length, query length) symbols; in particular a child whose
\* accumulated string is a proper prefix of the query is kept.
C19_EqualsKeepsAgreeingChildren ==
    (pc = "inner_consistent" /\ args[2] = BTEqualStrategyNumber)
    => /\ ~IsError(val)
       /\ \A i \in 1..args[1].nNodes :
              i \in KeptChildren(val)
              <=> AgreeOnSpan(AccumulatedString(args[1], i), args[3])

\* C20: for a StartsWith key, inner_consistent keeps every child once the
\* level is at least the query length, and otherwise keeps child i exactly
\* when the string accumulated for it agrees with the query on the first
\* min(accumulated length, query length) symbols.
C20_StartsWithKeepsAgreeingChildren ==
    (pc = "inner_consistent" /\ args[2] = RTPrefixStrategyNumber)
    => /\ ~IsError(val)
       /\ \A i \in 1..args[1].nNodes :
              i \in KeptChildren(val)
              <=> \/ args[1].level >= Len(args[3])
                  \/ AgreeOnSpan(AccumulatedString(args[1], i), args[3])

\* --------------------------------------- inner_consistent with several keys
\* The strategy numbers of src/unnamed/part_003: 1 for =, 2 for ^@.
EqualStrategy_part003 == 1
PrefixStrategy_part003 == 2

\* starts_with_internal(prefix, kmer) of src/unnamed/part_003, on C strings.
starts_with_internal_part003(prefix, kmer) ==
    IF Len(prefix) > Len(kmer)
    THEN Raised("Prefix length cannot exceed kmer length")
    ELSE Returned(Strncmp(prefix, kmer, Len(prefix)) = 0)

\* The switch of spgist_kmer_inner_consistent of src/unnamed/part_003 for one
\* scan key: the value res gets, or the error raised.
InnerKeyConsistent_part003(strategy, full, thisLen, level, inKmer) ==
    LET inSize == inKmer.length
        r == Strncmp(full, KmerText(inKmer), Min(thisLen, inSize))
    IN  IF strategy = EqualStrategy_part003 THEN Returned(r = 0)
        ELSE IF strategy = PrefixStrategy_part003
        THEN IF level >= inSize THEN Returned(TRUE)
             ELSE starts_with_internal_part003(full, KmerText(inKmer))
        ELSE Returned(FALSE)

\* spgist_kmer_inner_consistent(in, out) of src/unnamed/part_003.  The loop
\* over the keys assigns res for each key and does not leave at a false one:
\* the last key's value is the one tested after the loop.
spgist_kmer_inner_consistent_part003(in) ==
    LET base == (IF in.level > 0
                 THEN SubSeq(KmerText(in.reconstructedValue), 1, in.level) ELSE <<>>)
                \o (IF in.hasPrefix THEN KmerText(in.prefixDatum) ELSE <<>>)
        full(i) == IF in.nodeLabels[i] <= 0 THEN base
                   ELSE Append(base, CodeChar(in.nodeLabels[i]))
        thisLen(i) == Len(full(i))
        key(i, j) == InnerKeyConsistent_part003(
                         in.scankeys[j].sk_strategy, full(i), thisLen(i), in.level,
                         in.scankeys[j].sk_argument)
        raising(i) == {j \in 1..in.nkeys : IsError(key(i, j))}
        res(i) == IF in.nkeys = 0 THEN TRUE ELSE key(i, in.nkeys).val
        made(i) == kmer_make_part003(full(i))
        error(i) == IF raising(i) # {} THEN key(i, MinOf(raising(i))).err
                    ELSE IF res(i) /\ IsError(made(i)) THEN made(i).err
                    ELSE NoError
        failed == {i \in 1..in.nNodes : error(i) # NoError}
        kept == Ascending({i \in 1..in.nNodes : error(i) = NoError /\ res(i)})
    IN  IF failed # {} THEN Raised(error(MinOf(failed)))
        ELSE Returned(
                 [nNodes |-> Len(kept),
                  nodeNumbers |-> [n \in 1..Len(kept) |-> kept[n] - 1],
                  levelAdds |-> [n \in 1..Len(kept) |-> thisLen(kept[n]) - in.level],
                  reconstructedValues |-> [n \in 1..Len(kept) |-> made(kept[n]).val]])

\* The inner tuple picksplit makes at the level of the reconstructed value r
\* from the leaf datums a and b, as a scan with the given keys is handed it.
InnerConsistentIn(r, a, b, scankeys) ==
    LET picked == spgist_kmer_picksplit(
                      [nTuples |-> 2, level |-> Len(r),
                       datums |-> <<KmerDatum(a), KmerDatum(b)>>])
    IN  [scankeys |-> scankeys, nkeys |-> Len(scankeys),
         reconstructedValue |-> IF r = <<>> THEN NullDatum ELSE KmerDatum(r),
         level |-> Len(r), allTheSame |-> FALSE,
         hasPrefix |-> picked.hasPrefix, prefixDatum |-> picked.prefixDatum,
         nNodes |-> picked.nNodes, nodeLabels |-> picked.nodeLabels]

\* The scan keys of a strategy: one per k-mer asked for.
ScanKeys(strategies) ==
    {[sk_strategy |-> strategy, sk_argument |-> KmerDatum(q)] :
        strategy \in strategies, q \in TrieKeys}

\* spgist_kmer_inner_consistent of src/dna.c for two scan keys; val holds its
\* answer for both keys, for the first alone and for the second alone.
inner_consistent_keys ==
    /\ pc = "idle"
    /\ \E r \in InnerReconstructed, a \in InnerDatums, b \in InnerDatums,
          k1 \in ScanKeys({BTEqualStrategyNumber, RTPrefixStrategyNumber}),
          k2 \in ScanKeys({BTEqualStrategyNumber, RTPrefixStrategyNumber}) :
        /\ a # b
        /\ args' = <<InnerConsistentIn(r, a, b, <<>>), k1, k2>>
        /\ val' = [both |-> spgist_kmer_inner_consistent(
                                InnerConsistentIn(r, a, b, <<k1, k2>>)),
                   first |-> spgist_kmer_inner_consistent(
                                 InnerConsistentIn(r, a, b, <<k1>>)),
                   second |-> spgist_kmer_inner_consistent(
                                  InnerConsistentIn(r, a, b, <<k2>>))]
    /\ pc' = "inner_consistent_keys"
    /\ out' = None
    /\ UNCHANGED <<heap, index>>

\* The same call of spgist_kmer_inner_consistent of src/unnamed/part_003.
inner_consistent_keys_part003 ==
    /\ pc = "idle"
    /\ \E r \in InnerReconstructed, a \in InnerDatums, b \in InnerDatums,
          k1 \in ScanKeys({EqualStrategy_part003, PrefixStrategy_part003}),
          k2 \in ScanKeys({EqualStrategy_part003, PrefixStrategy_part003}) :
        /\ a # b
        /\ args' = <<InnerConsistentIn(r, a, b, <<>>), k1, k2>>
        /\ val' = [both |-> spgist_kmer_inner_consistent_part003(
                                InnerConsistentIn(r, a, b, <<k1, k2>>)),
                   first |-> spgist_kmer_inner_consistent_part003(
                                 InnerConsistentIn(r, a, b, <<k1>>)),
                   second |-> spgist_kmer_inner_consistent_part003(
                                  InnerConsistentIn(r, a, b, <<k2>>))]
    /\ pc' = "inner_consistent_keys_part003"
    /\ out' = None
    /\ UNCHANGED <<heap, index>>

NextInnerKeys == inner_consistent_keys \/ inner_consistent_keys_part003 \/ Return

SpecInnerKeys == Init /\ [][NextInnerKeys]_vars

\* A child is among those an answer keeps; an answer that is an error keeps none.
Keeps(res, child) == ~IsError(res) /\ child \in KeptChildren(res)

\* C21: with two scan keys, inner_consistent returns a child only if it
\* returns that child for each of the keys alone, whichever key comes first.
C21_EveryKeyMustHold ==
    pc \in {"inner_consistent_keys", "inner_consistent_keys_part003"}
    => \A child \in 1..args[1].nNodes :
           Keeps(val.both, child) => (Keeps(val.first, child) /\ Keeps(val.second, child))

\* ------------------------------------------------------ choose on its inputs
\* spgist_kmer_choose(in, out) of src/unnamed/part_003.  With a prefix that
\* matches, next_char is *(unsigned char *) input_sequence + in->level +
\* common_length: the cast binds before the additions, so it is the byte of the
\* first symbol plus the position.
spgist_kmer_choose_part003(in) ==
    LET input_sequence == KmerText(in.datum)
        input_length == in.datum.length
        prefix_sequence == IF in.hasPrefix THEN KmerText(in.prefixDatum) ELSE <<>>
        prefix_length == IF in.hasPrefix THEN in.prefixDatum.length ELSE 0
        common_length ==
            IF in.hasPrefix
            THEN CommonLength(prefix_sequence, prefix_length, input_sequence,
                              input_length - in.level, in.level)
            ELSE 0
        next_char ==
            IF in.hasPrefix
            THEN IF input_length - in.level > common_length
                 THEN CharAt(input_sequence, 1) + in.level + common_length ELSE -1
            ELSE IF input_length > in.level
                 THEN CharCode(input_sequence[in.level + 1]) ELSE -1
        found == searchChar(in.nodeLabels, in.nNodes, next_char)
        level_add == common_length + (IF next_char >= 0 THEN 1 ELSE 0)
    IN  IF in.hasPrefix /\ common_length # prefix_length
        THEN [resultType |-> "spgSplitTuple",
              prefixHasPrefix |-> common_length # 0,
              prefixPrefixDatum |->
                  IF common_length = 0 THEN NullDatum
                  ELSE KmerDatum(SubSeq(prefix_sequence, 1, common_length)),
              prefixNNodes |-> 1,
              prefixNodeLabels |-> <<CharCode(prefix_sequence[common_length + 1])>>,
              childNodeN |-> 0,
              postfixHasPrefix |-> prefix_length - common_length # 1,
              postfixPrefixDatum |->
                  IF prefix_length - common_length = 1 THEN NullDatum
                  ELSE KmerDatum(SubSeq(prefix_sequence, common_length + 2,
                                        prefix_length))]
        ELSE IF found.found
        THEN [resultType |-> "spgMatchNode",
              nodeN |-> found.i,
              levelAdd |-> level_add,
              restDatum |->
                  IF input_length - in.level - level_add > 0
                  THEN KmerDatum(SubSeq(input_sequence, in.level + level_add + 1,
                                        input_length))
                  ELSE kmer_make_part003(<<"X">>).val]
        ELSE IF in.allTheSame
        THEN [resultType |-> "spgSplitTuple",
              prefixHasPrefix |-> in.hasPrefix,
              prefixPrefixDatum |-> in.prefixDatum,
              prefixNNodes |-> 1,
              prefixNodeLabels |-> <<next_char>>,
              childNodeN |-> 0,
              postfixHasPrefix |-> FALSE,
              postfixPrefixDatum |-> NullDatum]
        ELSE [resultType |-> "spgAddNode",
              nodeLabel |-> next_char,
              nodeN |-> found.i]

\* The texts inner tuples are made of and values continue with below a level:
\* the short ones and some with a common prefix of two and three symbols.
ChooseTexts ==
    TextsUpTo(TrieBases, MaxKeyLen)
    \cup {<<"A", "A", "A">>, <<"A", "A", "A", "A">>, <<"A", "A", "A", "C">>,
          <<"A", "C", "A", "A">>}

\* What spgist_kmer_choose is handed for the value r \o v at the inner tuple
\* that picksplit made, at the level of r, of the leaf datums a and b.  Of two
\* equal datums the host makes an allTheSame tuple: AllTheSameNodes nodes with
\* the one label.
ChooseInOf(r, a, b, v) ==
    LET picked == spgist_kmer_picksplit(
                      [nTuples |-> 2, level |-> Len(r),
                       datums |-> <<KmerDatum(a), KmerDatum(b)>>])
    IN  [datum |-> KmerDatum(r \o v), leafDatum |-> KmerDatum(v), level |-> Len(r),
         allTheSame |-> a = b,
         hasPrefix |-> picked.hasPrefix, prefixDatum |-> picked.prefixDatum,
         nNodes |-> IF a = b THEN AllTheSameNodes ELSE picked.nNodes,
         nodeLabels |-> IF a = b
                        THEN [n \in 1..AllTheSameNodes |-> picked.nodeLabels[1]]
                        ELSE picked.nodeLabels]

\* spgist_kmer_choose of src/dna.c.
choose ==
    /\ pc = "idle"
    /\ \E r \in InnerReconstructed, a \in ChooseTexts, b \in ChooseTexts,
          v \in ChooseTexts :
        /\ args' = <<ChooseInOf(r, a, b, v)>>
        /\ val' = spgist_kmer_choose(ChooseInOf(r, a, b, v))
    /\ pc' = "choose"
    /\ out' = None
    /\ UNCHANGED <<heap, index>>

\* spgist_kmer_choose of src/unnamed/part_003.
choose_part003 ==
    /\ pc = "idle"
    /\ \E r \in InnerReconstructed, a \in ChooseTexts, b \in ChooseTexts,
          v \in ChooseTexts :
        /\ args' = <<ChooseInOf(r, a, b, v)>>
        /\ val' = spgist_kmer_choose_part003(ChooseInOf(r, a, b, v))
    /\ pc' = "choose_part003"
    /\ out' = None
    /\ UNCHANGED <<heap, index>>

NextChoose == choose \/ choose_part003 \/ Return

SpecChoose == Init /\ [][NextChoose]_vars

\* The inserted value's symbols from the level on, and the node's prefix.
ValueBelow(in) == SubSeq(KmerText(in.datum), in.level + 1, in.datum.length)
NodePrefix(in) == IF in.hasPrefix THEN KmerText(in.prefixDatum) ELSE <<>>

\* c: how many leading symbols the value below the level shares with the prefix.
MatchedLength(in) ==
    MaxOf({n \in 0..Min(Len(NodePrefix(in)), Len(ValueBelow(in))) :
               SubSeq(NodePrefix(in), 1, n) = SubSeq(ValueBelow(in), 1, n)})

\* The label the value needs once the whole prefix has matched.
NeededLabel(in) ==
    IF Len(ValueBelow(in)) > MatchedLength(in)
    THEN CharCode(ValueBelow(in)[MatchedLength(in) + 1]) ELSE -1

\* C22: when the whole prefix matches and the node has a child labelled with
\* the value's symbol at position level + c (-1 if the value ends there),
\* choose answers matchNode on a child with that label, levelAdd is c + 1 for a
\* symbol and c for -1, and restDatum is the value from level + levelAdd on.
C22_MatchNodeOnNeededLabel ==
    (/\ pc \in {"choose", "choose_part003"}
     /\ MatchedLength(args[1]) = Len(NodePrefix(args[1]))
     /\ \E n \in 1..args[1].nNodes : args[1].nodeLabels[n] = NeededLabel(args[1]))
    => LET in == args[1]
           levelAdd == MatchedLength(in) + (IF NeededLabel(in) >= 0 THEN 1 ELSE 0)
       IN  /\ val.resultType = "spgMatchNode"
           /\ in.nodeLabels[val.nodeN + 1] = NeededLabel(in)
           /\ val.levelAdd = levelAdd
           /\ val.restDatum.length = Len(ValueBelow(in)) - levelAdd
           /\ KmerText(val.restDatum)
              = SubSeq(ValueBelow(in), levelAdd + 1, Len(ValueBelow(in)))

\* ------------------------------------------------- the order of node labels
NextTrieInsert ==
    \/ spgdoinsert \/ addLeafTuple \/ doPickSplit
    \/ spgMatchNodeAction \/ spgAddNodeAction \/ spgSplitNodeAction \/ Return

SpecTrieInsert == Init /\ [][NextTrieInsert]_vars

StrictlyAscending(labels) ==
    \A i \in 1..(Len(labels) - 1) : labels[i] < labels[i + 1]

\* The inner tuples picksplit built with one node per label (not allTheSame),
\* with the nodes choose's addNode results have added since.
PicksplitTuples ==
    {t \in 1..Len(index) : /\ index[t].kind = "inner"
                           /\ index[t].builtBy = "picksplit"
                           /\ ~index[t].allTheSame}

\* C23: after any sequence of insertions the node labels of every inner tuple
\* that picksplit built and addNode extended are strictly ascending.
C23_LabelsStrictlyAscending ==
    \A t \in PicksplitTuples : StrictlyAscending(index[t].nodeLabels)

\* An insertion has ended with a picksplit-built tuple holding a node that
\* addNode put before the two nodes picksplit gave it.
C23_Witness ==
    /\ pc = "inserted"
    /\ \E t \in PicksplitTuples :
           /\ Len(index[t].nodeLabels) = 3
           /\ index[t].nodeLabels[1] = -1

\* --------------------------------------------- choose: the prefix is split
\* The text of a prefix a split asks for: empty if it asks for none.
SplitPrefix(hasPrefix, prefixDatum) == IF hasPrefix THEN KmerText(prefixDatum) ELSE <<>>

\* C24: when the value below the level matches only the first c symbols of
\* the node's prefix, choose answers a split whose upper prefix is those c
\* symbols, whose one node is labelled with the prefix's symbol at position c
\* and leads to the lower tuple, and whose lower prefix is the rest of the
\* prefix: upper prefix, label and lower prefix make up the old prefix.
C24_SplitKeepsPrefix ==
    (/\ pc \in {"choose", "choose_part003"}
     /\ MatchedLength(args[1]) < Len(NodePrefix(args[1])))
    => LET in == args[1]
           c == MatchedLength(in)
           upper == SplitPrefix(val.prefixHasPrefix, val.prefixPrefixDatum)
           lower == SplitPrefix(val.postfixHasPrefix, val.postfixPrefixDatum)
       IN  /\ val.resultType = "spgSplitTuple"
           /\ upper = SubSeq(NodePrefix(in), 1, c)
           /\ val.prefixHasPrefix <=> c > 0
           /\ val.prefixNNodes = 1
           /\ val.prefixNodeLabels = <<CharCode(NodePrefix(in)[c + 1])>>
           /\ val.childNodeN = 0
           /\ lower = SubSeq(NodePrefix(in), c + 2, Len(NodePrefix(in)))
           /\ val.postfixHasPrefix <=> c + 1 < Len(NodePrefix(in))
           /\ upper \o <<CodeChar(val.prefixNodeLabels[1])>> \o lower = NodePrefix(in)

\* A prefix of three symbols is split after its first: upper prefix, label and
\* lower prefix are one symbol each.
C24_Witness ==
    /\ pc \in {"choose", "choose_part003"}
    /\ Len(NodePrefix(args[1])) = 3
    /\ MatchedLength(args[1]) = 1
    /\ val.resultType = "spgSplitTuple"
    /\ val.prefixHasPrefix /\ val.postfixHasPrefix

\* ------------------------------------ choose: an allTheSame node is split
\* C25: at an allTheSame node whose prefix the value matches and which has no
\* child with the label the value needs, choose answers a split whose upper
\* tuple keeps the node's prefix and has one node, labelled with a sentinel
\* (a negative label, no symbol), that leads to the lower tuple, which gets no
\* prefix.
C25_AllTheSameSplitUsesSentinel ==
    (/\ pc \in {"choose", "choose_part003"}
     /\ args[1].allTheSame
     /\ MatchedLength(args[1]) = Len(NodePrefix(args[1]))
     /\ \A n \in 1..args[1].nNodes : args[1].nodeLabels[n] # NeededLabel(args[1]))
    => /\ val.resultType = "spgSplitTuple"
       /\ val.prefixNNodes = 1
       /\ val.prefixNodeLabels[1] < 0
       /\ val.childNodeN = 0
       /\ SplitPrefix(val.prefixHasPrefix, val.prefixPrefixDatum) = NodePrefix(args[1])
       /\ ~val.postfixHasPrefix

\* -------------------------------------------------- the end of an insertion
\* spgist_kmer_picksplit(in, out) of src/unnamed/part_003: the prefix is cut at
\* KmerMaxLength symbols, and a value that ends with the prefix gets the leaf
\* datum kmer_make("X").
spgist_kmer_picksplit_part003(in) ==
    LET sequence(i) == KmerText(in.datums[i])
        first_sequence == sequence(1)
        longest ==
            MinOf({in.datums[1].length} \cup
                  {CommonLength(first_sequence, in.datums[1].length, sequence(i),
                                in.datums[i].length, 0) : i \in 2..in.nTuples})
        common_length == Min(longest, KmerMaxLength)
        c(i) == IF common_length < in.datums[i].length
                THEN CharCode(sequence(i)[common_length + 1]) ELSE -1
        nodeLabels == Ascending({c(i) : i \in 1..in.nTuples})
    IN  [hasPrefix |-> common_length > 0,
         prefixDatum |-> IF common_length > 0
                         THEN kmer_make_part003(
                                  SubSeq(first_sequence, 1, common_length)).val
                         ELSE NullDatum,
         nNodes |-> Len(nodeLabels),
         nodeLabels |-> nodeLabels,
         mapTuplesToNodes |-> [i \in 1..in.nTuples |-> PositionOf(c(i), nodeLabels)],
         leafTupleDatums |->
             [i \in 1..in.nTuples |->
                 IF common_length < in.datums[i].length
                 THEN kmer_make_part003(
                          SubSeq(sequence(i), common_length + 1,
                                 in.datums[i].length)).val
                 ELSE kmer_make_part003(<<"X">>).val]]

\* The most tuples the index is let grow to.
MaxTuples == 12

AtInnerTuple_part003 ==
    /\ pc = "spgdoinsert_part003"
    /\ args.current # 0
    /\ index[args.current].kind = "inner"

\* INSERT of one row into an index whose support functions are those of
\* src/unnamed/part_003.  The insertion keeps what spgist_kmer_choose has been
\* handed so far.
spgdoinsert_part003 ==
    /\ pc = "idle"
    /\ Len(heap) < MaxRows
    /\ \E key \in TrieKeys :
           /\ heap' = Append(heap, kmer_make_part003(key).val)
           /\ args' = [datum |-> kmer_make_part003(key).val,
                       leafDatum |-> kmer_make_part003(key).val,
                       level |-> 0, current |-> 1, parent |-> 0, nodeN |-> 0,
                       heapPtr |-> Len(heap) + 1, seen |-> {}]
    /\ pc' = "spgdoinsert_part003"
    /\ UNCHANGED <<val, out, index>>

addLeafTuple_part003 ==
    /\ pc = "spgdoinsert_part003"
    /\ LET leafTuple == [datum |-> args.leafDatum, heapPtr |-> args.heapPtr]
       IN  IF args.current = 0
           THEN index' = Append(
                    [index EXCEPT ![args.parent].downlinks[args.nodeN + 1] =
                                      Len(index) + 1],
                    [kind |-> "leaf", tuples |-> <<leafTuple>>])
           ELSE /\ index[args.current].kind = "leaf"
                /\ Len(index[args.current].tuples) < LeafCapacity
                /\ index' = [index EXCEPT ![args.current].tuples = Append(@, leafTuple)]
    /\ pc' = "inserted"
    /\ UNCHANGED <<args, val, out, heap>>

doPickSplit_part003 ==
    /\ pc = "spgdoinsert_part003"
    /\ args.current # 0
    /\ index[args.current].kind = "leaf"
    /\ Len(index[args.current].tuples) >= LeafCapacity
    /\ \E tooBig \in BOOLEAN :
        LET old == index[args.current].tuples
            in == [nTuples |-> Len(old) + 1,
                   datums |-> [i \in 1..(Len(old) + 1) |->
                                  IF i <= Len(old) THEN old[i].datum ELSE args.leafDatum],
                   level |-> args.level]
            heapPtrs == [i \in 1..in.nTuples |->
                            IF i <= Len(old) THEN old[i].heapPtr ELSE args.heapPtr]
            picked == spgist_kmer_picksplit_part003(in)
            allTheSame == checkAllTheSame(in, picked, tooBig)
            includeNew ==
                ~(allTheSame /\ tooBig /\
                  picked.mapTuplesToNodes[in.nTuples] # picked.mapTuplesToNodes[1])
            nNodes == IF allTheSame THEN AllTheSameNodes ELSE picked.nNodes
            nodeLabels ==
                IF allTheSame
                THEN [n \in 1..nNodes |->
                         picked.nodeLabels[picked.mapTuplesToNodes[1] + 1]]
                ELSE picked.nodeLabels
            mapTuplesToNodes ==
                IF allTheSame THEN [i \in 1..in.nTuples |-> (i - 1) % nNodes]
                ELSE picked.mapTuplesToNodes
            included == 1..(IF includeNew THEN in.nTuples ELSE in.nTuples - 1)
            ofNode(n) == Ascending({i \in included : mapTuplesToNodes[i] = n - 1})
            populated == Ascending({n \in 1..nNodes : ofNode(n) # <<>>})
            innerTuple ==
                [kind |-> "inner", builtBy |-> "picksplit", allTheSame |-> allTheSame,
                 hasPrefix |-> picked.hasPrefix, prefixDatum |-> picked.prefixDatum,
                 nodeLabels |-> nodeLabels,
                 downlinks |-> [n \in 1..nNodes |->
                                   IF ofNode(n) = <<>> THEN 0
                                   ELSE Len(index) + PositionOf(n, populated) + 1]]
            chains == [m \in 1..Len(populated) |->
                          [kind |-> "leaf",
                           tuples |-> [j \in 1..Len(ofNode(populated[m])) |->
                                          [datum |-> picked.leafTupleDatums[
                                                         ofNode(populated[m])[j]],
                                           heapPtr |-> heapPtrs[
                                                         ofNode(populated[m])[j]]]]]]
        IN  /\ index' = [index EXCEPT ![args.current] = innerTuple] \o chains
            /\ pc' = IF includeNew THEN "inserted" ELSE "spgdoinsert_part003"
    /\ UNCHANGED <<args, val, out, heap>>

spgMatchNodeAction_part003 ==
    /\ AtInnerTuple_part003
    /\ spgist_kmer_choose_part003(ChooseIn).resultType = "spgMatchNode"
    /\ \E nodeN \in 0..(ChooseIn.nNodes - 1) :
           /\ IF ChooseIn.allTheSame
              THEN nodeN \in RandomNodes(index[args.current])
              ELSE nodeN = spgist_kmer_choose_part003(ChooseIn).nodeN
           /\ args' = [args EXCEPT
                          !.level = @ + spgist_kmer_choose_part003(ChooseIn).levelAdd,
                          !.leafDatum = spgist_kmer_choose_part003(ChooseIn).restDatum,
                          !.parent = args.current,
                          !.nodeN = nodeN,
                          !.current = index[args.current].downlinks[nodeN + 1],
                          !.seen = @ \cup {ChooseIn}]
    /\ UNCHANGED <<pc, val, out, heap, index>>

spgAddNodeAction_part003 ==
    /\ AtInnerTuple_part003
    /\ spgist_kmer_choose_part003(ChooseIn).resultType = "spgAddNode"
    /\ IF ChooseIn.allTheSame
       THEN /\ InsertFails("cannot add a node to an allTheSame inner tuple")
            /\ UNCHANGED index
       ELSE /\ index' = [index EXCEPT
                   ![args.current].nodeLabels =
                       InsertAt(@, spgist_kmer_choose_part003(ChooseIn).nodeN,
                                spgist_kmer_choose_part003(ChooseIn).nodeLabel),
                   ![args.current].downlinks =
                       InsertAt(@, spgist_kmer_choose_part003(ChooseIn).nodeN, 0)]
            /\ UNCHANGED <<pc, out, heap>>
    /\ args' = [args EXCEPT !.seen = @ \cup {ChooseIn}]
    /\ UNCHANGED val

\* The host splits while the index has fewer than MaxTuples tuples.
spgSplitNodeAction_part003 ==
    /\ AtInnerTuple_part003
    /\ Len(index) < MaxTuples
    /\ spgist_kmer_choose_part003(ChooseIn).resultType = "spgSplitTuple"
    /\ LET split == spgist_kmer_choose_part003(ChooseIn)
           innerTuple == index[args.current]
       IN  index' = Append(
               [index EXCEPT ![args.current] =
                   [kind |-> "inner", builtBy |-> "choose", allTheSame |-> FALSE,
                    hasPrefix |-> split.prefixHasPrefix,
                    prefixDatum |-> split.prefixPrefixDatum,
                    nodeLabels |-> split.prefixNodeLabels,
                    downlinks |-> [n \in 1..split.prefixNNodes |->
                                      IF n = split.childNodeN + 1
                                      THEN Len(index) + 1 ELSE 0]]],
               [innerTuple EXCEPT !.hasPrefix = split.postfixHasPrefix,
                                  !.prefixDatum = split.postfixPrefixDatum])
    /\ args' = [args EXCEPT !.seen = @ \cup {ChooseIn}]
    /\ UNCHANGED <<pc, val, out, heap>>

NextTrieInsert_part003 ==
    \/ spgdoinsert_part003 \/ addLeafTuple_part003 \/ doPickSplit_part003
    \/ spgMatchNodeAction_part003 \/ spgAddNodeAction_part003
    \/ spgSplitNodeAction_part003 \/ Return

SpecTrieInsert_part003 == Init /\ [][NextTrieInsert_part003]_vars

\* The insertion is at a leaf chain with no room.
PickSplitDue == AtLeafChain /\ Len(index[args.current].tuples) >= LeafCapacity

\* The host runs an insertion it has begun: each step that can be taken is
\* taken.  doPickSplit can be taken exactly when PickSplitDue.
SpecTrieInsertFair ==
    /\ Init /\ [][NextTrieInsert]_vars
    /\ WF_vars(addLeafTuple \/ spgMatchNodeAction \/ spgAddNodeAction
                  \/ spgSplitNodeAction)
    /\ ([]<>(~PickSplitDue) \/ []<><<doPickSplit>>_vars)

\* With the functions of src/dna.c every insertion begun ends, with the row
\* stored or with an error.
InsertionEnds == (pc = "spgdoinsert") ~> (pc \in {"inserted", "insert_error"})

\* C26: an insertion never comes back to spgist_kmer_choose with what choose
\* has been handed before in the same insertion (the same inner tuple contents,
\* level and value): from there the calls would repeat without end.
C26_ChooseNeverRepeats ==
    AtInnerTuple_part003 => ChooseIn \notin args.seen

\* ---------------------------------------------------- picksplit on its inputs
\* The leaf datums picksplit is handed: texts of one and two symbols, some
\* ending where others go on and some sharing their next symbol, and texts
\* whose common part reaches and passes PicksplitPrefixCap and reaches
\* KmerMaxLength.
PicksplitTexts ==
    {<<"A">>, <<"C">>, <<"A", "A">>, <<"A", "C">>, <<"C", "A">>, <<"C", "C">>}
    \cup {Repeat(<<"A">>, n) : n \in {PicksplitPrefixCap + 1, KmerMaxLength}}
    \cup {Append(Repeat(<<"A">>, n), "C") :
              n \in {PicksplitPrefixCap, PicksplitPrefixCap + 1}}

\* The most leaf datums in one picksplit call.
MaxSplitTuples == 3

PickSplitInOf(datums) ==
    [nTuples |-> Len(datums), level |-> 0, datums |-> datums]

\* kmer_make of the texts above, by each variant.
PicksplitDatums == [s \in PicksplitTexts \cup {<<>>} |-> KmerDatum(s)]
PicksplitDatums_part003 == [s \in PicksplitTexts |-> kmer_make_part003(s).val]

\* spgist_kmer_picksplit of src/dna.c on two or more leaf datums; one of them
\* may be the empty k-mer an earlier picksplit or choose has left.
picksplit ==
    /\ pc = "idle"
    /\ \E n \in 2..MaxSplitTuples :
       \E texts \in [1..n -> DOMAIN PicksplitDatums] :
           LET in == PickSplitInOf([i \in 1..n |-> PicksplitDatums[texts[i]]])
           IN  /\ args' = <<in>>
               /\ val' = spgist_kmer_picksplit(in)
    /\ pc' = "picksplit"
    /\ out' = None
    /\ UNCHANGED <<heap, index>>

\* spgist_kmer_picksplit of src/unnamed/part_003, whose leaf datums are never
\* empty.
picksplit_part003 ==
    /\ pc = "idle"
    /\ \E n \in 2..MaxSplitTuples :
       \E texts \in [1..n -> DOMAIN PicksplitDatums_part003] :
           LET in == PickSplitInOf(
                         [i \in 1..n |-> PicksplitDatums_part003[texts[i]]])
           IN  /\ args' = <<in>>
               /\ val' = spgist_kmer_picksplit_part003(in)
    /\ pc' = "picksplit_part003"
    /\ out' = None
    /\ UNCHANGED <<heap, index>>

NextPicksplit == picksplit \/ picksplit_part003 \/ Return

SpecPicksplit == Init /\ [][NextPicksplit]_vars

\* The text of input i of a picksplit call.
InputText(in, i) == KmerText(in.datums[i])

\* The longest text that every input of the call starts with.
LongestCommonPrefix(in) ==
    LET first == InputText(in, 1)
        common == {n \in 0..Len(first) :
                      \A i \in 1..in.nTuples :
                          IsPrefix(SubSeq(first, 1, n), InputText(in, i))}
    IN  SubSeq(first, 1, MaxOf(common))

\* The bound on the prefix in the variant that made the call.
PrefixBound == IF pc = "picksplit" THEN PicksplitPrefixCap ELSE KmerMaxLength

\* C27: the node prefix picksplit emits is the longest common prefix of all
\* its inputs, cut at the variant's bound (10 in src/dna.c, 32 in
\* src/unnamed/part_003), and it emits no prefix exactly when that is empty.
C27_PrefixIsLongestCommonPrefix ==
    pc \in {"picksplit", "picksplit_part003"}
    => LET lcp == LongestCommonPrefix(args[1])
           n == IF Len(lcp) < PrefixBound THEN Len(lcp) ELSE PrefixBound
       IN  /\ val.hasPrefix <=> n # 0
           /\ val.hasPrefix => /\ val.prefixDatum.length = n
                               /\ KmerText(val.prefixDatum) = SubSeq(lcp, 1, n)

\* In src/dna.c three inputs with eleven symbols in common got the prefix of
\* the first ten; in src/unnamed/part_003 they would get all eleven.
C27_Witness ==
    /\ pc = "picksplit"
    /\ args[1].nTuples = 3
    /\ Len(LongestCommonPrefix(args[1])) = PicksplitPrefixCap + 1
    /\ val.hasPrefix
    /\ val.prefixDatum.length = PicksplitPrefixCap

\* The label of input i: its symbol after the emitted prefix, -1 if it ends there.
NextSymbol(in, picked, i) ==
    LET n == IF picked.hasPrefix THEN picked.prefixDatum.length ELSE 0
    IN  IF n < Len(InputText(in, i)) THEN CharCode(InputText(in, i)[n + 1]) ELSE -1

C29_LongWindowReturnsNothing ==
    (/\ pc \in {"generate_kmers", "generate_kmers_done", "generate_kmers_error"}
     /\ Len(args[1]) < args[2]
     /\ args[2] <= KmerMaxLength)
    => /\ pc = "generate_kmers_done"
       /\ val.call_cntr = 0
       /\ out = <<>>

\* ------------------------------------------------- the mask of starts_with
\* The word whose low n bits are set and no other.
LowBits(n) == [j \in 1..BasesPerWord |-> IF (j - 1) * 2 < n THEN 3 ELSE 0]

\* C30: for a prefix of L symbols, 1 <= L <= 32, no longer than the k-mer,
\* starts_with answers by comparing the prefix with exactly the low 2 * L bits
\* of the k-mer's word, L = 32 included; so of two k-mers of 32 symbols it is
\* true iff they are equal.
C30_MaskSelectsPrefixBits ==
    (/\ pc = "starts_with"
     /\ Len(args[2]) \in 1..KmerMaxLength
     /\ Len(args[2]) <= Len(args[1]))
    => /\ out = Returned(val[2].bit_sequence
                         = WordAnd(val[1].bit_sequence, LowBits(2 * Len(args[2]))))
       /\ (Len(args[1]) = KmerMaxLength /\ Len(args[2]) = KmerMaxLength)
          => out = Returned(args[1] = args[2])
====
